---- MODULE Spec2Model ----
(***************************************************************************)
(* The overlay filesystem of zi (src/src/fs/overlay-agentfs.ts): a         *)
(* read-only base view of the real disk merged with a delta layer, plus    *)
(* the change manifest (modified / deleted paths) kept by OverlayAgentFS.  *)
(*                                                                         *)
(* Strings (paths, file contents, JSON text) are sequences of one-letter   *)
(* strings, so startsWith / slice / includes / JSON.stringify /            *)
(* JSON.parse are computed letter by letter, as the code computes them.    *)
(* A JavaScript Set is a sequence without duplicates in insertion order.   *)
(* The delta layer follows the repository's own FileSystem double          *)
(* (createMockDelta in src/test/overlay-agentfs.test.ts); in addition any  *)
(* delegated delta call may reject (the `fails` input of each operation).  *)
(*                                                                         *)
(* The session history of zi (src/src/agent/session-manager.ts): the       *)
(* append-only log of entries, the id index and the leaf pointer of        *)
(* SessionManager, under the specification SpecSession.                    *)
(*                                                                         *)
(* The apply subcommand (applySession): preview, confirmation and the      *)
(* copy of the session's changes to the real disk, under SpecApply.        *)
(* The end of a run and a resumed run (main, handleShutdown, loadSession), *)
(* under SpecMain.  Agent.prompt (src/src/agent/index.ts): the retry loop, *)
(* the tool loop and abort, one action per await, under SpecAgent; the     *)
(* provider and the tools follow a plan drawn when the prompt starts.      *)
(*                                                                         *)
(* The interactive UI (src/src/tui/index.ts): submit, slash commands and   *)
(* ctrl+c around the single prompt in flight, under SpecTui.  A session    *)
(* followed by the apply of its own manifest, with writes through the      *)
(* handle open returns, under SpecRoundTrip.                               *)
(***************************************************************************)
EXTENDS Integers, Sequences, FiniteSets, TLC

VARIABLES
    base,           \* the real disk: path -> [kind, data]
    delta,          \* the delta layer's files: path -> content or NoFile
    modifiedFiles,  \* OverlayAgentFS.modifiedFiles (Set<string>)
    deletedFiles,   \* OverlayAgentFS.deletedFiles (Set<string>)
    phase,          \* "active" until the session's shutdown has persisted the manifest
    targets,        \* the path arguments this session's tool calls give
    touched,        \* history: the paths a write-class or delete-class call has named
    last,           \* history: the last overlay call and its outcome
    loaded,         \* what OverlayAgentFS.loadManifest(delta) returned, once called
    sessionId,      \* SessionManager.sessionId
    fileEntries,    \* SessionManager.fileEntries: the header, then the entries as appended
    byId,           \* SessionManager.byId (Map<string, SessionEntry>), in insertion order
    leafId,         \* SessionManager.leafId: an entry id or NULL
    script,         \* the appends this session's callers make
    slast,          \* history: the last SessionManager call and its outcome
    pc,             \* Agent.prompt: where the running prompt stands, "idle" between prompts
    retries,        \* Agent.prompt: let retries
    iteration,      \* Agent.prompt: let iteration
    iterationContent, \* Agent.prompt: let iterationContent
    pendingCalls,   \* Agent.prompt: the tool calls of the provider's answer not yet run
    toolCalls,      \* Agent.prompt: const toolCalls of the running iteration
    allToolCalls,   \* Agent.prompt: const allToolCalls
    aborted,        \* Agent.prompt: combinedSignal.aborted
    result,         \* what the last prompt returned or threw
    now,            \* the clock reading the entries of the running prompt are stamped with
    ahist,          \* history of the running prompt: attempts, steps, tool starts
    applyPc,        \* applySession: where the command stands
    session,        \* applySession: const session (the ApplySession)
    applied,        \* applySession: let applied
    console,        \* the lines written to the console
    deltaOpen,      \* TRUE while the session's delta layer is open
    cursor,         \* applySession: the position in the two apply loops
    chist,          \* history of the command: the disk and the manifest it started from
    mode,           \* main: the output mode of the run ("interactive" for the TUI)
    mainPc,         \* main: where the run of the program stands
    inFlight,       \* ZiTui.inFlight
    requests,       \* the calls of agent.prompt the UI is awaiting
    statusBar,      \* the status the UI shows: mode and text
    helpShown,      \* TRUE while the help overlay is shown
    exiting,        \* TRUE once onExit was called
    thist           \* history: the last input the UI handled

overlayVars == <<base, delta, modifiedFiles, deletedFiles, phase, targets, touched, last, loaded>>

sessionVars == <<sessionId, fileEntries, byId, leafId, script, slast>>

agentVars ==
    <<pc, retries, iteration, iterationContent, pendingCalls, toolCalls, allToolCalls, aborted, result,
      now, ahist>>

cliVars == <<applyPc, session, applied, console, deltaOpen, cursor, chist, mode, mainPc>>

tuiVars == <<inFlight, requests, statusBar, helpShown, exiting, thist>>

vars == <<overlayVars, sessionVars, agentVars, cliVars, tuiVars>>

-----------------------------------------------------------------------------
(* Bounds *)

\* number of distinct ordinary file contents
MaxContent == 2

-----------------------------------------------------------------------------
(* Strings *)

StartsWith(s, pre) == Len(s) >= Len(pre) /\ SubSeq(s, 1, Len(pre)) = pre

EndsWith(s, suf) == Len(s) >= Len(suf) /\ SubSeq(s, Len(s) - Len(suf) + 1, Len(s)) = suf

\* String.prototype.slice(n)
Slice(s, n) == SubSeq(s, n + 1, Len(s))

\* String.prototype.includes(ch) for a one-letter ch
Includes(s, ch) == \E i \in 1..Len(s) : s[i] = ch

\* s.split("/")[0]
SplitFirst(s) ==
    IF Includes(s, "/")
    THEN SubSeq(s, 1, (CHOOSE i \in 1..Len(s) : s[i] = "/" /\ \A j \in 1..(i - 1) : s[j] # "/") - 1)
    ELSE s

-----------------------------------------------------------------------------
(* JavaScript Set<string>, in insertion order *)

SetHas(S, x) == \E i \in 1..Len(S) : S[i] = x

SetAdd(S, x) == IF SetHas(S, x) THEN S ELSE Append(S, x)

SetDelete(S, x) == SelectSeq(S, LAMBDA y : y # x)

Elems(S) == {S[i] : i \in 1..Len(S)}

NoDup(S) == \A i, j \in 1..Len(S) : S[i] = S[j] => i = j

-----------------------------------------------------------------------------
(* Paths and contents *)

MANIFEST_PATH == <<"/", "_", "_", "z", "i", "_", "m", "a", "n", "i", "f", "e", "s", "t", ".", "j", "s", "o", "n">>

ROOT == <<"/">>
PA == <<"/", "a">>
PD == <<"/", "d">>
PDX == <<"/", "d", "/", "x">>

\* every absolute path the model distinguishes
Paths == {ROOT, PA, PD, PDX, MANIFEST_PATH}

\* the overlay's baseDir (the session's working directory)
baseDir == PD

\* "x" relative to baseDir
RelX == <<"x">>

\* a session's tool calls name the paths of one of these sets (/d/x is named
\* absolutely in one, relative to baseDir in another)
TargetSets == {{PA, PDX}, {PD, RelX}, {PA, PD}}

Letters == <<"x", "y", "z", "w">>

Contents == {<<Letters[i]>> : i \in 1..MaxContent}

NoFile == "NoFile"

-----------------------------------------------------------------------------
(* Results of a call: a value, or an error code *)

Ok(v) == [ok |-> TRUE, val |-> v, err |-> ""]

Err(e) == [ok |-> FALSE, val |-> <<>>, err |-> e]

-----------------------------------------------------------------------------
(* The base view: the real disk, read through node:fs/promises *)

NoNode == [kind |-> "none", data |-> <<>>]
FileNode(c) == [kind |-> "file", data |-> c]
DirNode == [kind |-> "dir", data |-> <<>>]

\* a fixed enumeration of the paths, the order listings are reported in
PathOrder == <<ROOT, PA, PD, PDX, MANIFEST_PATH>>

\* prefix of the children of directory p: "/" for the root, p + "/" otherwise
DirPrefix(p) == IF EndsWith(p, <<"/">>) THEN p ELSE p \o <<"/">>

RECURSIVE ChildNames(_, _, _)
\* names (insertion-ordered, no duplicates) of the first segment below p of
\* every path of PathOrder[i..] that is in the set `present`
ChildNames(p, present, i) ==
    IF i > Len(PathOrder) THEN <<>>
    ELSE LET key == PathOrder[i]
             rest == Slice(key, Len(DirPrefix(p)))
             tail == ChildNames(p, present, i + 1)
         IN IF key \in present /\ StartsWith(key, DirPrefix(p)) /\ SplitFirst(rest) # <<>>
            THEN IF SetHas(tail, SplitFirst(rest)) THEN tail ELSE <<SplitFirst(rest)>> \o tail
            ELSE tail

BaseReadFile(p) ==
    CASE base[p].kind = "file" -> Ok(base[p].data)
      [] base[p].kind = "dir" -> Err("EISDIR")
      [] OTHER -> Err("ENOENT")

BaseStat(p) ==
    IF base[p].kind = "none" THEN Err("ENOENT")
    ELSE Ok([isFile |-> base[p].kind = "file", isDirectory |-> base[p].kind = "dir",
             size |-> Len(base[p].data)])

BaseAccess(p) == IF base[p].kind = "none" THEN Err("ENOENT") ELSE Ok(<<>>)

BaseReadlink(p) == IF base[p].kind = "none" THEN Err("ENOENT") ELSE Err("EINVAL")

BaseReaddir(p) ==
    CASE base[p].kind = "dir" -> Ok(ChildNames(p, {q \in DOMAIN base : base[q].kind # "none"}, 1))
      [] base[p].kind = "file" -> Err("ENOTDIR")
      [] OTHER -> Err("ENOENT")

-----------------------------------------------------------------------------
(* The delta layer: a FileSystem; `f` is its files map, `fails` the set of    *)
(* delegated calls that reject in this operation                              *)

Step(f, r) == [files |-> f, res |-> r]

DeltaReadFile(f, p, fails) ==
    IF "readFile" \in fails THEN Err("EIO")
    ELSE IF f[p] = NoFile THEN Err("ENOENT") ELSE Ok(f[p])

DeltaWriteFile(f, p, data, fails) ==
    IF "writeFile" \in fails THEN Step(f, Err("EIO"))
    ELSE Step([f EXCEPT ![p] = data], Ok(<<>>))

DeltaStat(f, p, fails) ==
    IF "stat" \in fails THEN Err("EIO")
    ELSE IF f[p] = NoFile THEN Err("ENOENT")
    ELSE Ok([isFile |-> TRUE, isDirectory |-> FALSE, size |-> Len(f[p])])

DeltaReaddir(f, p, fails) ==
    IF "readdir" \in fails THEN Err("EIO")
    ELSE LET entries == ChildNames(p, {q \in DOMAIN f : f[q] # NoFile}, 1)
         IN IF entries = <<>> THEN Err("ENOENT") ELSE Ok(entries)

DeltaAccess(f, p, fails) ==
    IF "access" \in fails THEN Err("EIO")
    ELSE IF f[p] = NoFile THEN Err("ENOENT") ELSE Ok(<<>>)

DeltaReadlink(f, p, fails) == Err("EINVAL")

DeltaMkdir(f, p, fails) ==
    IF "mkdir" \in fails THEN Step(f, Err("EIO")) ELSE Step(f, Ok(<<>>))

DeltaRmdir(f, p, fails) ==
    IF "rmdir" \in fails THEN Step(f, Err("EIO")) ELSE Step(f, Ok(<<>>))

DeltaUnlink(f, p, fails) ==
    IF "unlink" \in fails THEN Step(f, Err("EIO"))
    ELSE Step([f EXCEPT ![p] = NoFile], Ok(<<>>))

DeltaRm(f, p, recursive, fails) ==
    IF "rm" \in fails THEN Step(f, Err("EIO"))
    ELSE Step([f EXCEPT ![p] = NoFile], Ok(<<>>))

DeltaRename(f, oldPath, newPath, fails) ==
    IF "rename" \in fails THEN Step(f, Err("EIO"))
    ELSE IF f[oldPath] = NoFile THEN Step(f, Err("ENOENT"))
    ELSE Step([[f EXCEPT ![newPath] = f[oldPath]] EXCEPT ![oldPath] = NoFile], Ok(<<>>))

DeltaSymlink(f, target, p, fails) ==
    IF "symlink" \in fails THEN Step(f, Err("EIO")) ELSE Step(f, Ok(<<>>))

DeltaOpen(f, p, fails) ==
    IF "open" \in fails THEN Err("EIO")
    ELSE IF f[p] = NoFile THEN Err("ENOENT") ELSE Ok(p)

-----------------------------------------------------------------------------
(* OverlayAgentFS: path resolution and the tombstone check *)

\* inputs are normalised; a relative input is resolved against baseDir
toAbsolute(path) == IF Head(path) = "/" THEN path ELSE DirPrefix(baseDir) \o path

\* TRUE when the call is to throw ENOENT
throwIfDeleted(absPath) == SetHas(deletedFiles, absPath)

ENOENT == Err("ENOENT")

-----------------------------------------------------------------------------
(* OverlayAgentFS: read operations, delta first, then the base *)

\* readFile without the fall-through to the base
readFile_NoFallback(path, fails) ==
    LET p == toAbsolute(path)
    IN IF throwIfDeleted(p) THEN ENOENT ELSE DeltaReadFile(delta, p, fails)

readFile(path, fails) ==
    LET p == toAbsolute(path)
        d == DeltaReadFile(delta, p, fails)
    IN IF throwIfDeleted(p) THEN ENOENT
       ELSE IF d.ok THEN d ELSE BaseReadFile(p)

stat(path, fails) ==
    LET p == toAbsolute(path)
        d == DeltaStat(delta, p, fails)
    IN IF throwIfDeleted(p) THEN ENOENT
       ELSE IF d.ok THEN d ELSE BaseStat(p)

lstat(path, fails) ==
    LET p == toAbsolute(path)
        d == DeltaStat(delta, p, fails)
    IN IF throwIfDeleted(p) THEN ENOENT
       ELSE IF d.ok THEN d ELSE BaseStat(p)

access(path, fails) ==
    LET p == toAbsolute(path)
        d == DeltaAccess(delta, p, fails)
    IN IF throwIfDeleted(p) THEN ENOENT
       ELSE IF d.ok THEN d ELSE BaseAccess(p)

readlink(path, fails) ==
    LET p == toAbsolute(path)
        d == DeltaReadlink(delta, p, fails)
    IN IF throwIfDeleted(p) THEN ENOENT
       ELSE IF d.ok THEN d ELSE BaseReadlink(p)

RECURSIVE AddAll(_, _)
\* for (const e of names) entries.add(e)
AddAll(entries, names) ==
    IF names = <<>> THEN entries ELSE AddAll(SetAdd(entries, Head(names)), Tail(names))

RECURSIVE DropDeleted(_, _, _)
\* the loop over deletedFiles[i..] that removes the tombstoned children of
\* `parent` from `entries`
DropDeleted(entries, parent, i) ==
    IF i > Len(deletedFiles) THEN entries
    ELSE LET deleted == deletedFiles[i]
             name == Slice(deleted, Len(parent) + 1)
         IN IF StartsWith(deleted, parent \o <<"/">>) /\ ~Includes(name, "/")
            THEN DropDeleted(SetDelete(entries, name), parent, i + 1)
            ELSE DropDeleted(entries, parent, i + 1)

\* createMockDelta.readdirPlus lists the names of readdir
DeltaReaddirPlus(f, p, fails) ==
    IF "readdirPlus" \in fails THEN Err("EIO") ELSE DeltaReaddir(f, p, {})

\* the names of the entries readdirPlus returns (a Map keyed by name: base
\* entries first, delta entries after them); no tombstone check on p itself
readdirPlus(path, fails) ==
    LET p == toAbsolute(path)
        b == BaseReaddir(p)
        d == DeltaReaddirPlus(delta, p, fails)
        e1 == IF b.ok THEN AddAll(<<>>, b.val) ELSE <<>>
        e2 == IF d.ok THEN AddAll(e1, d.val) ELSE e1
    IN IF ~d.ok /\ ~b.ok THEN b
       ELSE Ok(DropDeleted(e2, p, 1))

readdir(path, fails) ==
    LET p == toAbsolute(path)
        d == DeltaReaddir(delta, p, fails)
        b == BaseReaddir(p)
        e1 == IF d.ok THEN AddAll(<<>>, d.val) ELSE <<>>
        e2 == IF b.ok THEN AddAll(e1, b.val) ELSE e1
    IN IF throwIfDeleted(p) THEN ENOENT
       ELSE IF ~d.ok /\ ~b.ok THEN b
       ELSE Ok(DropDeleted(e2, p, 1))

-----------------------------------------------------------------------------
(* OverlayAgentFS: write operations. Each yields the state it leaves and   *)
(* the call's result; `copiedUp` tells whether base content was copied     *)
(* into the delta layer, `recursive` whether rm was given that option.     *)

Out(b, f, m, d, r, cow, c) ==
    [base |-> b, delta |-> f, modified |-> m, deleted |-> d, res |-> r, copiedUp |-> cow,
     content |-> c, recursive |-> FALSE]

\* the call rejected with r before it changed anything
Rejected(r) == Out(base, delta, modifiedFiles, deletedFiles, r, FALSE, <<>>)

\* writeFile that also writes the real file
writeFile_WriteThrough(path, data, fails) ==
    LET p == toAbsolute(path)
        w == DeltaWriteFile(delta, p, data, fails)
    IN Out([base EXCEPT ![p] = FileNode(data)], w.files, SetAdd(modifiedFiles, p),
           SetDelete(deletedFiles, p), w.res, FALSE, data)

\* writeFile that leaves an earlier tombstone in place
writeFile_KeepTombstone(path, data, fails) ==
    LET p == toAbsolute(path)
        w == DeltaWriteFile(delta, p, data, fails)
    IN Out(base, w.files, SetAdd(modifiedFiles, p), deletedFiles, w.res, FALSE, data)

writeFile(path, data, fails) ==
    LET p == toAbsolute(path)
        d1 == SetDelete(deletedFiles, p)
        m1 == SetAdd(modifiedFiles, p)
        w == DeltaWriteFile(delta, p, data, fails)
    IN Out(base, w.files, m1, d1, w.res, FALSE, data)

mkdir(path, fails) ==
    LET w == DeltaMkdir(delta, toAbsolute(path), fails)
    IN Out(base, w.files, modifiedFiles, deletedFiles, w.res, FALSE, <<>>)

\* unlink that only delegates, as before tombstones were tracked
unlink_DelegateOnly(path, fails) ==
    LET w == DeltaUnlink(delta, toAbsolute(path), fails)
    IN Out(base, w.files, modifiedFiles, deletedFiles, w.res, FALSE, <<>>)

unlink(path, fails) ==
    LET p == toAbsolute(path)
        d1 == SetAdd(deletedFiles, p)
        m1 == SetDelete(modifiedFiles, p)
        w == DeltaUnlink(delta, p, fails)
    IN Out(base, w.files, m1, d1, Ok(<<>>), FALSE, <<>>)

rmdir(path, fails) ==
    LET p == toAbsolute(path)
        d1 == SetAdd(deletedFiles, p)
        m1 == SetDelete(modifiedFiles, p)
        w == DeltaRmdir(delta, p, fails)
    IN Out(base, w.files, m1, d1, Ok(<<>>), FALSE, <<>>)

rm(path, recursive, fails) ==
    LET p == toAbsolute(path)
        d1 == SetAdd(deletedFiles, p)
        m1 == SetDelete(modifiedFiles, p)
        w == DeltaRm(delta, p, recursive, fails)
    IN [Out(base, w.files, m1, d1, Ok(<<>>), FALSE, <<>>) EXCEPT !.recursive = recursive]

\* rename that tracks the modified set only, as before tombstones were tracked
rename_NoTombstone(oldPath, newPath, fails) ==
    LET op == toAbsolute(oldPath)
        np == toAbsolute(newPath)
        st == DeltaStat(delta, op, fails)
        content == BaseReadFile(op)
        w == DeltaWriteFile(delta, op, content.val, fails)
        f1 == IF st.ok THEN delta ELSE w.files
        m1 == SetAdd(SetDelete(modifiedFiles, op), np)
        r == DeltaRename(f1, op, np, fails)
    IN IF ~st.ok /\ ~content.ok THEN Rejected(content)
       ELSE IF ~st.ok /\ ~w.res.ok THEN Rejected(w.res)
       ELSE Out(base, r.files, m1, deletedFiles, r.res, ~st.ok,
                IF st.ok THEN <<>> ELSE content.val)

rename(oldPath, newPath, fails) ==
    LET op == toAbsolute(oldPath)
        np == toAbsolute(newPath)
        st == DeltaStat(delta, op, fails)
        content == BaseReadFile(op)
        w == DeltaWriteFile(delta, op, content.val, fails)
        f1 == IF st.ok THEN delta ELSE w.files
        m1 == SetAdd(SetDelete(modifiedFiles, op), np)
        d1 == SetDelete(SetAdd(deletedFiles, op), np)
        r == DeltaRename(f1, op, np, fails)
    IN IF ~st.ok /\ ~content.ok THEN Rejected(content)
       ELSE IF ~st.ok /\ ~w.res.ok THEN Rejected(w.res)
       ELSE Out(base, r.files, m1, d1, r.res, ~st.ok, IF st.ok THEN <<>> ELSE content.val)

copyFile(src, dest, fails) ==
    LET sp == toAbsolute(src)
        dp == toAbsolute(dest)
        d == DeltaReadFile(delta, sp, fails)
        content == IF d.ok THEN d ELSE BaseReadFile(sp)
        m1 == SetAdd(modifiedFiles, dp)
        w == DeltaWriteFile(delta, dp, content.val, fails)
    IN IF ~content.ok THEN Rejected(content)
       ELSE Out(base, w.files, m1, deletedFiles, w.res, FALSE, content.val)

symlink(target, linkpath, fails) ==
    LET w == DeltaSymlink(delta, target, toAbsolute(linkpath), fails)
    IN Out(base, w.files, modifiedFiles, deletedFiles, w.res, FALSE, <<>>)

open(path, fails) ==
    LET p == toAbsolute(path)
        o1 == DeltaOpen(delta, p, fails)
        content == BaseReadFile(p)
        w == DeltaWriteFile(delta, p, content.val, fails)
        o2 == DeltaOpen(w.files, p, IF "reopen" \in fails THEN {"open"} ELSE {})
    IN IF o1.ok THEN Out(base, delta, modifiedFiles, deletedFiles, o1, FALSE, <<>>)
       ELSE IF ~content.ok THEN Rejected(content)
       ELSE IF ~w.res.ok THEN Rejected(w.res)
       ELSE Out(base, w.files, modifiedFiles, deletedFiles, o2, TRUE, content.val)

-----------------------------------------------------------------------------
(* JSON.stringify and JSON.parse on the manifest's shapes: an array of     *)
(* strings, and an object whose members are arrays of strings. Every       *)
(* other text is reported as a parse failure.                              *)

QUOTE == "\""
BACKSLASH == "\\"

KEY_MODIFIED == <<"m", "o", "d", "i", "f", "i", "e", "d">>

KEY_DELETED == <<"d", "e", "l", "e", "t", "e", "d">>

RECURSIVE Escape(_)
\* the body of a JSON string literal: quote and backslash are escaped
Escape(s) ==
    IF s = <<>> THEN <<>>
    ELSE (IF Head(s) = QUOTE \/ Head(s) = BACKSLASH THEN <<BACKSLASH, Head(s)>> ELSE <<Head(s)>>)
         \o Escape(Tail(s))

StringifyString(s) == <<QUOTE>> \o Escape(s) \o <<QUOTE>>

RECURSIVE StringifyItems(_)
StringifyItems(arr) ==
    IF arr = <<>> THEN <<>>
    ELSE IF Len(arr) = 1 THEN StringifyString(arr[1])
    ELSE StringifyString(Head(arr)) \o <<",">> \o StringifyItems(Tail(arr))

StringifyArray(arr) == <<"[">> \o StringifyItems(arr) \o <<"]">>

\* JSON.stringify({ modified: [...], deleted: [...] })
StringifyManifest(m) ==
    <<"{">> \o StringifyString(KEY_MODIFIED) \o <<":">> \o StringifyArray(m.modified)
    \o <<",">> \o StringifyString(KEY_DELETED) \o <<":">> \o StringifyArray(m.deleted) \o <<"}">>

ParseFail == [ok |-> FALSE, val |-> <<>>, next |-> 0]

Parsed(v, n) == [ok |-> TRUE, val |-> v, next |-> n]

At(s, i) == IF i >= 1 /\ i <= Len(s) THEN s[i] ELSE "<eof>"

RECURSIVE ParseStringBody(_, _, _)
\* the letters of a string literal from s[i] to its closing quote
ParseStringBody(s, i, acc) ==
    IF At(s, i) = "<eof>" THEN ParseFail
    ELSE IF s[i] = QUOTE THEN Parsed(acc, i + 1)
    ELSE IF s[i] = BACKSLASH
         THEN IF At(s, i + 1) \in {QUOTE, BACKSLASH, "/"}
              THEN ParseStringBody(s, i + 2, Append(acc, s[i + 1]))
              ELSE ParseFail
    ELSE ParseStringBody(s, i + 1, Append(acc, s[i]))

ParseString(s, i) == IF At(s, i) = QUOTE THEN ParseStringBody(s, i + 1, <<>>) ELSE ParseFail

RECURSIVE ParseItems(_, _, _)
\* string ("," string)* "]" from s[i]
ParseItems(s, i, acc) ==
    LET e == ParseString(s, i)
    IN IF ~e.ok THEN ParseFail
       ELSE IF At(s, e.next) = "]" THEN Parsed(Append(acc, e.val), e.next + 1)
       ELSE IF At(s, e.next) = "," THEN ParseItems(s, e.next + 1, Append(acc, e.val))
       ELSE ParseFail

ParseArray(s, i) ==
    IF At(s, i) # "[" THEN ParseFail
    ELSE IF At(s, i + 1) = "]" THEN Parsed(<<>>, i + 2)
    ELSE ParseItems(s, i + 1, <<>>)

RECURSIVE ParseMembers(_, _, _)
\* string ":" array ("," string ":" array)* "}" from s[i]
ParseMembers(s, i, acc) ==
    LET k == ParseString(s, i)
        v == ParseArray(s, k.next + 1)
    IN IF ~k.ok \/ At(s, k.next) # ":" THEN ParseFail
       ELSE IF ~v.ok THEN ParseFail
       ELSE IF At(s, v.next) = "}" THEN Parsed(Append(acc, <<k.val, v.val>>), v.next + 1)
       ELSE IF At(s, v.next) = "," THEN ParseMembers(s, v.next + 1, Append(acc, <<k.val, v.val>>))
       ELSE ParseFail

ParseObject(s, i) ==
    IF At(s, i) # "{" THEN ParseFail
    ELSE IF At(s, i + 1) = "}" THEN Parsed(<<>>, i + 2)
    ELSE ParseMembers(s, i + 1, <<>>)

NULL_TEXT == <<"n", "u", "l", "l">>

\* JSON.parse(text): [ok, isArray, isNull, val]; an array's val is its
\* strings, an object's val its members <<key, array>> in order
JSONparse(s) ==
    LET a == ParseArray(s, 1)
        o == ParseObject(s, 1)
    IN IF a.ok /\ a.next = Len(s) + 1
       THEN [ok |-> TRUE, isArray |-> TRUE, isNull |-> FALSE, val |-> a.val]
       ELSE IF o.ok /\ o.next = Len(s) + 1
       THEN [ok |-> TRUE, isArray |-> FALSE, isNull |-> FALSE, val |-> o.val]
       ELSE IF s = NULL_TEXT
       THEN [ok |-> TRUE, isArray |-> FALSE, isNull |-> TRUE, val |-> <<>>]
       ELSE [ok |-> FALSE, isArray |-> FALSE, isNull |-> FALSE, val |-> <<>>]

\* parsed[key] ?? []: the last member named key wins
Member(members, key) ==
    LET hits == {i \in 1..Len(members) : members[i][1] = key}
    IN IF hits = {} THEN <<>>
       ELSE members[CHOOSE i \in hits : \A j \in hits : j <= i][2]

-----------------------------------------------------------------------------
(* The change manifest *)

EmptyManifest == [modified |-> <<>>, deleted |-> <<>>]

\* persistManifest in the legacy encoding: the bare array of modified paths
persistManifest_LegacyArray(fails) ==
    LET w == DeltaWriteFile(delta, MANIFEST_PATH, StringifyArray(modifiedFiles), fails)
    IN IF Len(modifiedFiles) = 0 /\ Len(deletedFiles) = 0
       THEN Out(base, delta, modifiedFiles, deletedFiles, Ok(<<>>), FALSE, <<>>)
       ELSE Out(base, w.files, modifiedFiles, deletedFiles, w.res, FALSE, <<>>)

persistManifest(fails) ==
    LET manifest == [modified |-> modifiedFiles, deleted |-> deletedFiles]
        w == DeltaWriteFile(delta, MANIFEST_PATH, StringifyManifest(manifest), fails)
    IN IF Len(modifiedFiles) = 0 /\ Len(deletedFiles) = 0
       THEN Out(base, delta, modifiedFiles, deletedFiles, Ok(<<>>), FALSE, <<>>)
       ELSE Out(base, w.files, modifiedFiles, deletedFiles, w.res, FALSE, <<>>)

\* loadManifest that knows the object encoding only
loadManifest_ObjectOnly(f, fails) ==
    LET content == DeltaReadFile(f, MANIFEST_PATH, fails)
        parsed == JSONparse(content.val)
    IN IF ~content.ok \/ ~parsed.ok \/ parsed.isNull \/ parsed.isArray THEN EmptyManifest
       ELSE [modified |-> Member(parsed.val, KEY_MODIFIED),
             deleted |-> Member(parsed.val, KEY_DELETED)]

\* reading a member of null throws a TypeError, which the catch swallows
loadManifest(f, fails) ==
    LET content == DeltaReadFile(f, MANIFEST_PATH, fails)
        parsed == JSONparse(content.val)
    IN IF ~content.ok \/ ~parsed.ok \/ parsed.isNull THEN EmptyManifest
       ELSE IF parsed.isArray THEN [modified |-> parsed.val, deleted |-> <<>>]
       ELSE [modified |-> Member(parsed.val, KEY_MODIFIED),
             deleted |-> Member(parsed.val, KEY_DELETED)]

-----------------------------------------------------------------------------
(* The state machine: one action per OverlayAgentFS call *)

NULL == <<>>

NoSessionCall == [op |-> "none", arg |-> NULL, ok |-> TRUE, ret |-> NULL]

\* no SessionManager has been constructed
SessionUnused ==
    /\ sessionId = NULL
    /\ fileEntries = <<>>
    /\ byId = <<>>
    /\ leafId = NULL
    /\ script = {}
    /\ slast = NoSessionCall

NoResult == [kind |-> "none", content |-> "", toolCalls |-> <<>>, error |-> ""]

NoFailure == [at |-> "none", name |-> "Error"]

NoPlan == [fails |-> 0, failure |-> NoFailure, toolSteps |-> 0, perStep |-> 1, ids |-> "provider"]

NoPromptHistory ==
    [plan |-> NoPlan, attempts |-> 0, started |-> 0, finished |-> 0, observed |-> FALSE,
     failures |-> <<>>, answers |-> <<>>]

\* no input handled by the UI yet
NoInput == [input |-> "none", during |-> FALSE, tick |-> FALSE]

READY == [mode |-> "ready", text |-> "Ready"]

\* the interactive UI is not running
TuiUnused ==
    /\ inFlight = FALSE
    /\ requests = 0
    /\ statusBar = READY
    /\ helpShown = FALSE
    /\ exiting = FALSE
    /\ thist = NoInput

\* no Agent.prompt is running and none has run
AgentUnused ==
    /\ pc = "idle"
    /\ retries = 0
    /\ iteration = 0
    /\ iterationContent = ""
    /\ pendingCalls = <<>>
    /\ toolCalls = <<>>
    /\ allToolCalls = <<>>
    /\ aborted = FALSE
    /\ result = NoResult
    /\ now = 0
    /\ ahist = NoPromptHistory

\* no command of the CLI is running
CliUnused ==
    /\ applyPc = "none"
    /\ session = NULL
    /\ applied = 0
    /\ console = <<>>
    /\ deltaOpen = TRUE
    /\ cursor = 0
    /\ chist = NULL
    /\ mode = "none"
    /\ mainPc = "none"

\* the real disk before the session: /a and /d may be absent, /d/x exists
\* only inside the directory /d
MkBase(a, d, dx) ==
    [p \in Paths |-> CASE p = ROOT -> DirNode
                       [] p = PA -> a
                       [] p = PD -> d
                       [] p = PDX -> dx
                       [] OTHER -> NoNode]

BaseStates ==
    {MkBase(NoNode, NoNode, NoNode),
     MkBase(FileNode(<<Letters[1]>>), FileNode(<<Letters[MaxContent]>>), NoNode),
     MkBase(FileNode(<<Letters[1]>>), DirNode, FileNode(<<Letters[MaxContent]>>))}

NotLoaded == [called |-> FALSE, readFailed |-> FALSE, result |-> EmptyManifest]

NoCall ==
    [op |-> "none", path |-> <<>>, path2 |-> <<>>, data |-> <<>>, ok |-> TRUE,
     copiedUp |-> FALSE, recursive |-> FALSE, tombstoned |-> FALSE]

Init ==
    /\ base \in BaseStates
    /\ delta = [p \in Paths |-> NoFile]
    /\ modifiedFiles = <<>>
    /\ deletedFiles = <<>>
    /\ phase = "active"
    /\ targets \in TargetSets
    /\ touched = {}
    /\ last = NoCall
    /\ loaded = NotLoaded
    /\ SessionUnused
    /\ AgentUnused
    /\ TuiUnused
    /\ CliUnused

\* path arguments as the callers give them: absolute, or relative to baseDir
Inputs == targets

\* the delegated calls that reject during one overlay call: none, or one of `calls`
Faults(calls) == {{}} \cup {{c} : c \in calls}

\* the state and the history after a call whose outcome is o
Apply(o, opName, p, p2, written) ==
    /\ phase = "active"
    /\ base' = o.base
    /\ delta' = o.delta
    /\ modifiedFiles' = o.modified
    /\ deletedFiles' = o.deleted
    /\ phase' = IF opName = "persistManifest" THEN "persisted" ELSE phase
    /\ targets' = targets
    /\ touched' = touched \cup written
    /\ last' = [op |-> opName, path |-> p, path2 |-> p2, data |-> o.content,
                ok |-> o.res.ok, copiedUp |-> o.copiedUp, recursive |-> o.recursive,
                tombstoned |-> SetHas(deletedFiles, p)]
    /\ loaded' = loaded
    /\ UNCHANGED <<sessionVars, agentVars, cliVars, tuiVars>>

WriteFile ==
    \E path \in Inputs, data \in Contents, fails \in Faults({"writeFile"}) :
        Apply(writeFile(path, data, fails), "writeFile", toAbsolute(path), <<>>,
              {toAbsolute(path)})

Mkdir ==
    \E path \in Inputs, fails \in Faults({"mkdir"}) :
        Apply(mkdir(path, fails), "mkdir", toAbsolute(path), <<>>, {toAbsolute(path)})

Unlink ==
    \E path \in Inputs, fails \in Faults({"unlink"}) :
        Apply(unlink(path, fails), "unlink", toAbsolute(path), <<>>, {toAbsolute(path)})

Rmdir ==
    \E path \in Inputs, fails \in Faults({"rmdir"}) :
        Apply(rmdir(path, fails), "rmdir", toAbsolute(path), <<>>, {toAbsolute(path)})

Rm ==
    \E path \in Inputs, recursive \in BOOLEAN, fails \in Faults({"rm"}) :
        Apply(rm(path, recursive, fails), "rm", toAbsolute(path), <<>>, {toAbsolute(path)})

Rename ==
    \E oldPath \in Inputs, newPath \in Inputs, fails \in Faults({"stat", "writeFile", "rename"}) :
        Apply(rename(oldPath, newPath, fails), "rename", toAbsolute(oldPath),
              toAbsolute(newPath), {toAbsolute(oldPath), toAbsolute(newPath)})

CopyFile ==
    \E src \in Inputs, dest \in Inputs, fails \in Faults({"readFile", "writeFile"}) :
        Apply(copyFile(src, dest, fails), "copyFile", toAbsolute(src), toAbsolute(dest),
              {toAbsolute(dest)})

Symlink ==
    \E target \in Inputs, linkpath \in Inputs, fails \in Faults({"symlink"}) :
        Apply(symlink(target, linkpath, fails), "symlink", toAbsolute(linkpath), <<>>,
              {toAbsolute(linkpath)})

Open ==
    \E path \in Inputs, fails \in Faults({"open", "writeFile", "reopen"}) :
        Apply(open(path, fails), "open", toAbsolute(path), <<>>, {})

\* the session's shutdown: the manifest is persisted once, the delta layer
\* is closed after it
PersistManifest ==
    \E fails \in Faults({"writeFile"}) :
        Apply(persistManifest(fails), "persistManifest", MANIFEST_PATH, <<>>,
              IF Len(modifiedFiles) = 0 /\ Len(deletedFiles) = 0 THEN {} ELSE {MANIFEST_PATH})

Next ==
    \/ WriteFile
    \/ Mkdir
    \/ Unlink
    \/ Rmdir
    \/ Rm
    \/ Rename
    \/ CopyFile
    \/ Symlink
    \/ Open
    \/ PersistManifest

Spec == Init /\ [][Next]_vars

-----------------------------------------------------------------------------
(* The manifest round trip on its own: the in-memory manifest is drawn     *)
(* from the lists of at most MaxManifest names, some of which need JSON    *)
(* escaping, and the shutdown persists it.                                 *)

\* longest modified / deleted list drawn
MaxManifest == 2

PQUOTE == <<"/", "q", QUOTE>>
PBACK == <<"/", "b", BACKSLASH, "c">>

ManifestNames == {PA, PQUOTE, PBACK}

\* the duplicate-free lists of at most n names
RECURSIVE Lists(_)
Lists(n) ==
    IF n = 0 THEN {<<>>}
    ELSE Lists(n - 1) \cup
         {Append(l, x) : l \in {k \in Lists(n - 1) : Len(k) = n - 1}, x \in ManifestNames}

DupFreeLists == {l \in Lists(MaxManifest) : NoDup(l)}

InitManifest ==
    /\ base = MkBase(NoNode, NoNode, NoNode)
    /\ delta = [p \in Paths |-> NoFile]
    /\ modifiedFiles \in DupFreeLists
    /\ deletedFiles \in DupFreeLists
    /\ phase = "active"
    /\ targets = {}
    /\ touched = Elems(modifiedFiles) \cup Elems(deletedFiles)
    /\ last = NoCall
    /\ loaded = NotLoaded
    /\ SessionUnused
    /\ AgentUnused
    /\ TuiUnused
    /\ CliUnused

NextManifest == PersistManifest

SpecManifest == InitManifest /\ [][NextManifest]_vars

-----------------------------------------------------------------------------
(* Loading a manifest: a later process reads what an earlier one left in   *)
(* the delta layer. The manifest file is absent, or holds a manifest in    *)
(* the object encoding (both lists, one list, none), a legacy bare array,  *)
(* the text null, or a text cut short.                                     *)

\* JSON.stringify of an object with the single member key: arr
StringifyMember(key, arr) ==
    <<"{">> \o StringifyString(key) \o <<":">> \o StringifyArray(arr) \o <<"}">>

ObjectTexts == {StringifyManifest([modified |-> m, deleted |-> d]) : m, d \in DupFreeLists}

PartialTexts ==
    {StringifyMember(KEY_MODIFIED, m) : m \in DupFreeLists}
    \cup {StringifyMember(KEY_DELETED, d) : d \in DupFreeLists}
    \cup {<<"{", "}">>}

LegacyTexts == {StringifyArray(m) : m \in DupFreeLists}

\* the texts a write cut short leaves: the proper prefixes of a manifest
TruncatedTexts ==
    UNION {{SubSeq(t, 1, n) : n \in 0..(Len(t) - 1)} : t \in ObjectTexts \cup LegacyTexts}

ManifestTexts ==
    ObjectTexts \cup PartialTexts \cup LegacyTexts \cup TruncatedTexts \cup {NULL_TEXT}

InitLoad ==
    /\ base = MkBase(NoNode, NoNode, NoNode)
    /\ \/ delta = [p \in Paths |-> NoFile]
       \/ \E t \in ManifestTexts :
              delta = [p \in Paths |-> IF p = MANIFEST_PATH THEN t ELSE NoFile]
    /\ modifiedFiles = <<>>
    /\ deletedFiles = <<>>
    /\ phase = "active"
    /\ targets = {}
    /\ touched = {}
    /\ last = NoCall
    /\ loaded = NotLoaded
    /\ SessionUnused
    /\ AgentUnused
    /\ TuiUnused
    /\ CliUnused

LoadManifest ==
    \E fails \in Faults({"readFile"}) :
        /\ ~loaded.called
        /\ loaded' = [called |-> TRUE, readFailed |-> fails # {},
                      result |-> loadManifest(delta, fails)]
        /\ UNCHANGED <<base, delta, modifiedFiles, deletedFiles, phase, targets, touched, last>>
        /\ UNCHANGED <<sessionVars, agentVars, cliVars, tuiVars>>

NextLoad == LoadManifest

SpecLoad == InitLoad /\ [][NextLoad]_vars

-----------------------------------------------------------------------------
(* The apply command (src/unnamed/part_023, applySession): a later process  *)
(* opens the delta layer a session left, loads its manifest, previews the   *)
(* changes, asks for confirmation and writes them to the real disk. The    *)
(* paths of the manifest are real paths; the delta layer holds one content  *)
(* for every modified path.                                                 *)

\* the paths a session's manifest names
ApplyNames == {PA, PD, PDX}

RECURSIVE PathLists(_)
PathLists(n) ==
    IF n = 0 THEN {<<>>}
    ELSE PathLists(n - 1) \cup
         {Append(l, x) : l \in {k \in PathLists(n - 1) : Len(k) = n - 1}, x \in ApplyNames}

DupFreePathLists == {l \in PathLists(MaxManifest) : NoDup(l)}

\* one line of console output
Line(text, path, n) == [text |-> text, path |-> path, n |-> n]

NO_CHANGES == Line("No changes to apply.", <<>>, 0)
CANCELLED == Line("Cancelled.", <<>>, 0)
APPLYING == Line("Applying session", <<>>, 0)
BLANK == Line("", <<>>, 0)
AppliedLine(n) == Line("Applied file(s)", <<>>, n)
ErrorLine(e) == Line("Error:", <<>>, 0)

\* String.prototype.trim for answers typed with blanks around them
RECURSIVE Trim(_)
Trim(s) ==
    IF s = <<>> THEN s
    ELSE IF Head(s) = " " THEN Trim(Tail(s))
    ELSE IF s[Len(s)] = " " THEN Trim(SubSeq(s, 1, Len(s) - 1))
    ELSE s

LowerOf(ch) ==
    CASE ch = "N" -> "n"
      [] ch = "O" -> "o"
      [] ch = "Y" -> "y"
      [] OTHER -> ch

toLowerCase(s) == [i \in 1..Len(s) |-> LowerOf(s[i])]

\* what the user types at the prompt "Apply these changes? [Y/n]"
Answers == {<<>>, <<"y">>, <<"n">>, <<"N">>, <<" ", "n", " ">>, <<"n", "o">>}

\* the value confirm() resolves to
confirm(answer) == toLowerCase(Trim(answer)) # <<"n">>

toRelativePath(filePath, cwdPath) ==
    LET prefix == IF EndsWith(cwdPath, <<"/">>) THEN cwdPath ELSE cwdPath \o <<"/">>
    IN IF StartsWith(filePath, prefix) THEN Slice(filePath, Len(prefix)) ELSE filePath

existsSync(b, p) == b[p].kind # "none"

\* path.dirname of an absolute path
dirname(p) ==
    LET i == CHOOSE k \in 1..Len(p) : p[k] = "/" /\ \A j \in (k + 1)..Len(p) : p[j] # "/"
    IN IF i = 1 THEN ROOT ELSE SubSeq(p, 1, i - 1)

\* node:fs/promises on the real disk b: a result and the disk after the call
Disk(b, r) == [base |-> b, res |-> r]

\* mkdir(dir, {recursive: true}); every directory named has its parent on disk
nodeFsMkdir(b, dir, fails) ==
    IF "mkdir" \in fails THEN Disk(b, Err("EACCES"))
    ELSE IF b[dir].kind = "file" THEN Disk(b, Err("EEXIST"))
    ELSE Disk([b EXCEPT ![dir] = DirNode], Ok(<<>>))

nodeFsWriteFile(b, p, data, fails) ==
    IF "writeFile" \in fails THEN Disk(b, Err("EACCES"))
    ELSE IF b[p].kind = "dir" THEN Disk(b, Err("EISDIR"))
    ELSE IF b[dirname(p)].kind = "file" THEN Disk(b, Err("ENOTDIR"))
    ELSE IF b[dirname(p)].kind = "none" THEN Disk(b, Err("ENOENT"))
    ELSE Disk([b EXCEPT ![p] = FileNode(data)], Ok(<<>>))

nodeFsUnlink(b, p, fails) ==
    IF "unlink" \in fails THEN Disk(b, Err("EACCES"))
    ELSE IF b[p].kind = "dir" THEN Disk(b, Err("EISDIR"))
    ELSE IF b[p].kind = "none" THEN Disk(b, Err("ENOENT"))
    ELSE Disk([b EXCEPT ![p] = NoNode], Ok(<<>>))

\* the ApplySession: the manifest's two lists beside the open delta layer
openSessionForApply(f, fails) ==
    LET manifest == loadManifest(f, fails)
    IN [modifiedFiles |-> manifest.modified, deletedFiles |-> manifest.deleted]

RECURSIVE PreviewModified(_, _, _, _, _)
\* the first preview loop over modified[i..]: the lines it prints, and the
\* error of the delta read that stopped it
PreviewModified(b, f, modified, i, fails) ==
    IF i > Len(modified) THEN [ok |-> TRUE, lines |-> <<>>]
    ELSE LET filePath == modified[i]
             isNew == ~existsSync(b, filePath)
             deltaContent == DeltaReadFile(f, filePath, fails)
             rest == PreviewModified(b, f, modified, i + 1, fails)
         IN IF ~deltaContent.ok THEN [ok |-> FALSE, lines |-> <<>>]
            ELSE [ok |-> rest.ok,
                  lines |-> <<Line(IF isNew THEN "A" ELSE "M",
                                   toRelativePath(filePath, baseDir),
                                   Len(deltaContent.val))>> \o rest.lines]

\* the second preview loop: one line for every deleted path that is on disk
PreviewDeleted(b, deleted) ==
    LET onDisk == SelectSeq(deleted, LAMBDA p : existsSync(b, p))
    IN [i \in 1..Len(onDisk) |-> Line("D", toRelativePath(onDisk[i], baseDir), 0)]

\* one turn of the first apply loop: the delta content is read, the parent
\* directory made when it is missing, the file written
applyModified(b, f, filePath, fails) ==
    LET deltaContent == DeltaReadFile(f, filePath, fails)
        dir == dirname(filePath)
        made == IF ~existsSync(b, dir) THEN nodeFsMkdir(b, dir, fails) ELSE Disk(b, Ok(<<>>))
    IN IF ~deltaContent.ok THEN Disk(b, deltaContent)
       ELSE IF ~made.res.ok THEN made
       ELSE nodeFsWriteFile(made.base, filePath, deltaContent.val, fails)

\* one turn of the second apply loop: res.val tells whether a file was removed
applyDeleted(b, filePath, fails) ==
    IF existsSync(b, filePath)
    THEN LET r == nodeFsUnlink(b, filePath, fails)
         IN IF r.res.ok THEN Disk(r.base, Ok(TRUE)) ELSE r
    ELSE Disk(b, Ok(FALSE))

afterConfirm_Proceed(ok, out) == [pc |-> "applying", console |-> out, open |-> TRUE]

\* the branch on the answer: a decline prints "Cancelled." and returns
\* through the finally block, which closes the delta layer
afterConfirm(ok, out) ==
    IF ~ok THEN [pc |-> "returned", console |-> Append(out, CANCELLED), open |-> FALSE]
    ELSE [pc |-> "applying", console |-> out, open |-> TRUE]

\* the manifest file a session that recorded m leaves: none for an empty m
PersistedText(m) ==
    IF Len(m.modified) = 0 /\ Len(m.deleted) = 0 THEN NoFile ELSE StringifyManifest(m)

\* a manifest text cut short at the start, in the middle or before its last letter
CutPoints(t) == {0, Len(t) \div 2, Len(t) - 1}

ApplyHistory(b, m, corrupt) ==
    [disk |-> b, recorded |-> m, corrupt |-> corrupt, answered |-> FALSE, answer |-> <<>>,
     written |-> <<>>, removed |-> <<>>, failed |-> FALSE]

\* the state a closed session leaves to `zi apply`: the real disk, the delta
\* layer with one content for every modified path and the manifest file,
\* whole or cut short
InitApply ==
    /\ \E b \in BaseStates, m \in DupFreePathLists, d \in DupFreePathLists, c \in Contents,
          whole \in BOOLEAN :
           LET recorded == [modified |-> m, deleted |-> d]
               t == PersistedText(recorded)
               files == [p \in Paths |-> IF p \in Elems(m) THEN c ELSE NoFile]
           IN /\ base = b
              /\ IF whole \/ Len(m) + Len(d) = 0
                 THEN /\ delta = [files EXCEPT ![MANIFEST_PATH] = t]
                      /\ chist = ApplyHistory(b, recorded, FALSE)
                 ELSE \E n \in CutPoints(t) :
                          /\ delta = [files EXCEPT ![MANIFEST_PATH] = SubSeq(t, 1, n)]
                          /\ chist = ApplyHistory(b, recorded, TRUE)
    /\ modifiedFiles = <<>>
    /\ deletedFiles = <<>>
    /\ phase = "persisted"
    /\ targets = {}
    /\ touched = {}
    /\ last = NoCall
    /\ loaded = NotLoaded
    /\ SessionUnused
    /\ AgentUnused
    /\ TuiUnused
    /\ applyPc = "start"
    /\ session = NULL
    /\ applied = 0
    /\ console = <<>>
    /\ deltaOpen = FALSE
    /\ cursor = 0
    /\ mode = "none"
    /\ mainPc = "apply"

applyFrame ==
    UNCHANGED <<delta, modifiedFiles, deletedFiles, phase, targets, touched, last, loaded,
                sessionVars, agentVars, mode, mainPc, tuiVars>>

\* an exception leaves applySession through the finally block; main reports it
ApplyThrow(e) ==
    /\ applyPc' = "threw"
    /\ deltaOpen' = FALSE
    /\ console' = Append(console, ErrorLine(e))

\* const session = await openSessionForApply(sessionId, baseDir)
ApplyOpen ==
    \E fails \in Faults({"readFile"}) :
        /\ applyPc = "start"
        /\ session' = openSessionForApply(delta, fails)
        /\ chist' = [chist EXCEPT !.corrupt = @ \/ (fails # {} /\ delta[MANIFEST_PATH] # NoFile)]
        /\ deltaOpen' = TRUE
        /\ applyPc' = "opened"
        /\ UNCHANGED <<base, applied, console, cursor>>
        /\ applyFrame

\* applySession up to the prompt: an empty manifest is reported, a manifest
\* with changes is previewed
ApplyPreview ==
    \E fails \in Faults({"readFile"}) :
        LET preview == PreviewModified(base, delta, session.modifiedFiles, 1, fails)
        IN /\ applyPc = "opened"
           /\ IF Len(session.modifiedFiles) = 0 /\ Len(session.deletedFiles) = 0
              THEN /\ fails = {}
                   /\ console' = Append(console, NO_CHANGES)
                   /\ deltaOpen' = FALSE
                   /\ applyPc' = "returned"
              ELSE IF ~preview.ok
              THEN /\ applyPc' = "threw"
                   /\ deltaOpen' = FALSE
                   /\ console' = console \o <<APPLYING>> \o preview.lines \o <<ErrorLine("EIO")>>
              ELSE /\ fails = {}
                   /\ console' = console \o <<APPLYING>> \o preview.lines
                                  \o PreviewDeleted(base, session.deletedFiles) \o <<BLANK>>
                   /\ deltaOpen' = TRUE
                   /\ applyPc' = "confirm"
           /\ UNCHANGED <<base, session, applied, cursor, chist>>
           /\ applyFrame

\* the user answers the prompt
ApplyAnswer ==
    \E answer \in Answers :
        LET ok == confirm(answer)
            after == afterConfirm(ok, console)
        IN /\ applyPc = "confirm"
           /\ chist' = [chist EXCEPT !.answered = TRUE, !.answer = answer]
           /\ applyPc' = after.pc
           /\ console' = after.console
           /\ deltaOpen' = after.open
           /\ applied' = 0
           /\ cursor' = 1
           /\ UNCHANGED <<base, session>>
           /\ applyFrame

\* one turn of the loop over session.modifiedFiles
ApplyWrite ==
    \E fails \in Faults({"readFile", "mkdir", "writeFile"}) :
        /\ applyPc = "applying"
        /\ cursor <= Len(session.modifiedFiles)
        /\ LET filePath == session.modifiedFiles[cursor]
               r == applyModified(base, delta, filePath, fails)
           IN /\ base' = r.base
              /\ IF r.res.ok
                 THEN /\ applied' = applied + 1
                      /\ cursor' = cursor + 1
                      /\ chist' = [chist EXCEPT !.written = Append(@, filePath)]
                      /\ UNCHANGED <<applyPc, deltaOpen, console>>
                 ELSE /\ ApplyThrow(r.res.err)
                      /\ chist' = [chist EXCEPT !.failed = TRUE]
                      /\ UNCHANGED <<applied, cursor>>
        /\ UNCHANGED session
        /\ applyFrame

\* one turn of the loop over session.deletedFiles
ApplyRemove ==
    \E fails \in Faults({"unlink"}) :
        /\ applyPc = "applying"
        /\ cursor > Len(session.modifiedFiles)
        /\ cursor <= Len(session.modifiedFiles) + Len(session.deletedFiles)
        /\ LET filePath == session.deletedFiles[cursor - Len(session.modifiedFiles)]
               r == applyDeleted(base, filePath, fails)
           IN /\ base' = r.base
              /\ IF r.res.ok
                 THEN /\ applied' = IF r.res.val THEN applied + 1 ELSE applied
                      /\ cursor' = cursor + 1
                      /\ chist' = [chist EXCEPT
                                      !.removed = IF r.res.val THEN Append(@, filePath) ELSE @]
                      /\ UNCHANGED <<applyPc, deltaOpen, console>>
                 ELSE /\ ApplyThrow(r.res.err)
                      /\ chist' = [chist EXCEPT !.failed = TRUE]
                      /\ UNCHANGED <<applied, cursor>>
        /\ UNCHANGED session
        /\ applyFrame

\* after the loops: the count is printed, the finally block closes the delta layer
ApplyReport ==
    /\ applyPc = "applying"
    /\ cursor > Len(session.modifiedFiles) + Len(session.deletedFiles)
    /\ console' = Append(console, AppliedLine(applied))
    /\ deltaOpen' = FALSE
    /\ applyPc' = "returned"
    /\ UNCHANGED <<base, session, applied, cursor, chist>>
    /\ applyFrame

NextApply ==
    \/ ApplyOpen
    \/ ApplyPreview
    \/ ApplyAnswer
    \/ ApplyWrite
    \/ ApplyRemove
    \/ ApplyReport

SpecApply == InitApply /\ [][NextApply]_vars

-----------------------------------------------------------------------------
(* SessionManager (src/src/agent/session-manager.ts): the append-only log  *)
(* of session entries, the id index and the leaf pointer. An id is         *)
(* <<"short", x>> (the first 8 letters of a UUID) or <<"uuid", n>> (a      *)
(* whole UUID); randomUUID() yields a UUID that is not in use (the ids of   *)
(* a session that newSession has dropped are in use no more). Map byId     *)
(* is the sequence of its values in insertion order.                       *)

\* entries one session holds at most
MaxEntries == 3

\* readings of the clock (Date.now()): an earlier and a later one; between
\* two appends the clock may stand still or step back
Times == {1, 2}

ABSENT == "<undefined>"

UNDEFINED == <<"undefined">>

INVALID == <<"invalid">>

\* the values randomUUID().slice(0, 8) takes
ShortIds == {<<"short", "a">>}

\* randomUUID(): the first UUID that is not in `used`
randomUUID(used) ==
    <<"uuid", CHOOSE n \in 1..(Cardinality(used) + 1) :
                  /\ <<"uuid", n>> \notin used
                  /\ \A k \in 1..(n - 1) : <<"uuid", k>> \in used>>

MapKeys(m) == {m[i].id : i \in 1..Len(m)}

MapHas(m, id) == \E i \in 1..Len(m) : m[i].id = id

MapGet(m, id) == m[CHOOSE i \in 1..Len(m) : m[i].id = id]

\* Map.set: a known key keeps its place, a new key goes last
MapSet(m, id, e) ==
    IF MapHas(m, id) THEN [i \in 1..Len(m) |-> IF m[i].id = id THEN e ELSE m[i]]
    ELSE Append(m, e)

\* the ids generateId(byId) can return: a short id that is not in byId, or,
\* after 100 draws that all hit ids of byId, a whole UUID
generateId_NoCheck(m) == ShortIds

generateId(m) ==
    (ShortIds \ MapKeys(m))
    \cup (IF ShortIds \cap MapKeys(m) # {} THEN {randomUUID(MapKeys(m) \cup {sessionId})} ELSE {})

SessionHeader(id) ==
    [type |-> "session", id |-> id, parentId |-> NULL, timestamp |-> 0, role |-> ABSENT,
     content |-> ABSENT, toolInvocations |-> <<>>, provider |-> ABSENT, model |-> ABSENT,
     modelId |-> ABSENT, summary |-> ABSENT, firstKeptEntryId |-> NULL]

\* the messages Agent.prompt and the tests append
AppendMessages ==
    [user |-> [role |-> "user", content |-> "Hello", toolInvocations |-> <<>>,
               provider |-> ABSENT, model |-> ABSENT],
     tagged |-> [role |-> "assistant", content |-> "Hi", toolInvocations |-> <<>>,
                 provider |-> "anthropic", model |-> "claude"],
     plain |-> [role |-> "assistant", content |-> "Hi there", toolInvocations |-> <<>>,
                provider |-> ABSENT, model |-> ABSENT],
     calls |-> [role |-> "assistant", content |-> "", toolInvocations |-> <<"call-1">>,
                provider |-> "anthropic", model |-> "claude"],
     tool |-> [role |-> "tool", content |-> "result", toolInvocations |-> <<"call-1">>,
               provider |-> ABSENT, model |-> ABSENT]]

MessageEntry(id, parentId, timestamp, message) ==
    [type |-> "message", id |-> id, parentId |-> parentId, timestamp |-> timestamp,
     role |-> message.role, content |-> message.content,
     toolInvocations |-> message.toolInvocations, provider |-> message.provider,
     model |-> message.model, modelId |-> ABSENT, summary |-> ABSENT,
     firstKeptEntryId |-> NULL]

ModelChangeEntry(id, parentId, timestamp, provider, modelId) ==
    [type |-> "model_change", id |-> id, parentId |-> parentId, timestamp |-> timestamp,
     role |-> ABSENT, content |-> ABSENT, toolInvocations |-> <<>>, provider |-> provider,
     model |-> ABSENT, modelId |-> modelId, summary |-> ABSENT, firstKeptEntryId |-> NULL]

CompactionEntry(id, parentId, timestamp, summary, firstKeptEntryId) ==
    [type |-> "compaction", id |-> id, parentId |-> parentId, timestamp |-> timestamp,
     role |-> ABSENT, content |-> ABSENT, toolInvocations |-> <<>>, provider |-> ABSENT,
     model |-> ABSENT, modelId |-> ABSENT, summary |-> summary,
     firstKeptEntryId |-> firstKeptEntryId]

getLeafId == leafId

getEntry(id) == IF MapHas(byId, id) THEN MapGet(byId, id) ELSE UNDEFINED

getEntries == SelectSeq(fileEntries, LAMBDA e : e.type # "session")

RECURSIVE SortByTimestamp(_)
\* Array.prototype.sort((a, b) => a.timestamp - b.timestamp): stable
SortByTimestamp(arr) ==
    IF arr = <<>> THEN <<>>
    ELSE LET x == arr[Len(arr)]
             rest == SortByTimestamp(SubSeq(arr, 1, Len(arr) - 1))
             n == Cardinality({i \in 1..Len(rest) : rest[i].timestamp <= x.timestamp})
         IN SubSeq(rest, 1, n) \o <<x>> \o SubSeq(rest, n + 1, Len(rest))

\* getChildren without the sort
getChildren_Unsorted(parentId) == SelectSeq(byId, LAMBDA e : e.parentId = parentId)

getChildren(parentId) ==
    SortByTimestamp(SelectSeq(byId, LAMBDA e : e.parentId = parentId))

RECURSIVE WalkBranch(_, _)
\* the while loop of getBranch: from the entry with id `current` to the root
WalkBranch(current, path) ==
    IF current = NULL \/ ~MapHas(byId, current) THEN path
    ELSE WalkBranch(MapGet(byId, current).parentId, <<MapGet(byId, current)>> \o path)

getBranch_NoParents(fromId) ==
    LET startId == IF fromId = UNDEFINED THEN leafId ELSE fromId
    IN IF startId = NULL \/ ~MapHas(byId, startId) THEN <<>> ELSE <<MapGet(byId, startId)>>

getBranch(fromId) ==
    LET startId == IF fromId = UNDEFINED THEN leafId ELSE fromId
    IN WalkBranch(startId, <<>>)

\* the entries of the log whose parent is the entry `id`, in log order
NodeChildren(entries, id) == SelectSeq(entries, LAMBDA e : e.parentId = id)

RECURSIVE TreeNode(_, _)
\* the node of entry e with its subtree, children by ascending timestamp
TreeNode(entries, e) ==
    [entry |-> e,
     children |-> LET cs == SortByTimestamp(NodeChildren(entries, e.id))
                  IN [i \in 1..Len(cs) |-> TreeNode(entries, cs[i])]]

\* the roots: the entries without parent, or whose parent is not in the log
getTree ==
    LET entries == getEntries
        ids == {entries[i].id : i \in 1..Len(entries)}
        roots == SelectSeq(entries, LAMBDA e : e.parentId = NULL \/ e.parentId \notin ids)
    IN [i \in 1..Len(roots) |-> TreeNode(entries, roots[i])]

Truthy(str) == str # ABSENT /\ str # ""

TextPart(text) == [type |-> "text", text |-> text, toolCallId |-> ABSENT]

ToolPart(type, inv) == [type |-> type, text |-> ABSENT, toolCallId |-> inv]

\* entryToMessage for string content: a message's content is its list of
\* parts; a plain string is the one part of type "string"
entryToMessage(entry) ==
    IF entry.role = "assistant" /\ Len(entry.toolInvocations) > 0
    THEN [role |-> "assistant",
          content |-> (IF Truthy(entry.content) THEN <<TextPart(entry.content)>> ELSE <<>>)
                      \o [i \in 1..Len(entry.toolInvocations) |->
                             ToolPart("tool-call", entry.toolInvocations[i])]]
    ELSE IF entry.role = "tool" /\ Len(entry.toolInvocations) > 0
    THEN [role |-> "tool",
          content |-> [i \in 1..Len(entry.toolInvocations) |->
                          ToolPart("tool-result", entry.toolInvocations[i])]]
    ELSE [role |-> entry.role,
          content |-> <<[type |-> "string", text |-> entry.content, toolCallId |-> ABSENT]>>]

NoModel == [provider |-> ABSENT, modelId |-> ABSENT]

RECURSIVE FoldModel_FirstWins(_, _, _)
\* the fold that keeps the first model it meets
FoldModel_FirstWins(path, i, model) ==
    IF i > Len(path) THEN model
    ELSE LET entry == path[i]
         IN IF model # NoModel THEN model
            ELSE IF entry.type = "model_change"
            THEN FoldModel_FirstWins(path, i + 1,
                                     [provider |-> entry.provider, modelId |-> entry.modelId])
            ELSE IF /\ entry.type = "message"
                    /\ entry.role = "assistant"
                    /\ Truthy(entry.provider)
                    /\ Truthy(entry.model)
            THEN FoldModel_FirstWins(path, i + 1,
                                     [provider |-> entry.provider, modelId |-> entry.model])
            ELSE FoldModel_FirstWins(path, i + 1, model)

RECURSIVE FoldModel(_, _, _)
\* the first loop of buildSessionContext over path[i..]
FoldModel(path, i, model) ==
    IF i > Len(path) THEN model
    ELSE LET entry == path[i]
         IN IF entry.type = "model_change"
            THEN FoldModel(path, i + 1, [provider |-> entry.provider, modelId |-> entry.modelId])
            ELSE IF /\ entry.type = "message"
                    /\ entry.role = "assistant"
                    /\ Truthy(entry.provider)
                    /\ Truthy(entry.model)
            THEN FoldModel(path, i + 1, [provider |-> entry.provider, modelId |-> entry.model])
            ELSE FoldModel(path, i + 1, model)

\* the context read from every entry of the log, whatever the branch
buildSessionContext_WholeLog ==
    LET path == getEntries
        msgs == SelectSeq(path, LAMBDA e : e.type = "message")
    IN [messages |-> [i \in 1..Len(msgs) |-> entryToMessage(msgs[i])],
        model |-> FoldModel(path, 1, NoModel)]

buildSessionContext ==
    LET path == getBranch(UNDEFINED)
        msgs == SelectSeq(path, LAMBDA e : e.type = "message")
    IN [messages |-> [i \in 1..Len(msgs) |-> entryToMessage(msgs[i])],
        model |-> FoldModel(path, 1, NoModel)]

-----------------------------------------------------------------------------
(* The SessionManager state machine *)

MessageKinds == DOMAIN AppendMessages

\* what one session's callers append: two kinds of entry each
ScriptSets ==
    {{"user", "tagged"}, {"tagged", "model_change"}, {"calls", "tool"}, {"plain", "compaction"}}

\* the overlay of a session whose tools have not run
OverlayUnused ==
    /\ base = MkBase(NoNode, NoNode, NoNode)
    /\ delta = [p \in Paths |-> NoFile]
    /\ modifiedFiles = <<>>
    /\ deletedFiles = <<>>
    /\ phase = "active"
    /\ targets = {}
    /\ touched = {}
    /\ last = NoCall
    /\ loaded = NotLoaded

\* SessionManager.inMemory(): the constructor calls newSession
InitSession ==
    /\ OverlayUnused
    /\ sessionId = randomUUID({})
    /\ fileEntries = <<SessionHeader(randomUUID({}))>>
    /\ byId = <<>>
    /\ leafId = NULL
    /\ script \in ScriptSets
    /\ slast = NoSessionCall
    /\ AgentUnused
    /\ TuiUnused
    /\ CliUnused

\* _appendEntry, and the id the append returns
AppendEntry_KeepLeaf(opName, entry) ==
    /\ fileEntries' = Append(fileEntries, entry)
    /\ byId' = MapSet(byId, entry.id, entry)
    /\ leafId' = leafId
    /\ slast' = [op |-> opName, arg |-> NULL, ok |-> TRUE, ret |-> entry.id]
    /\ UNCHANGED <<sessionId, script>>
    /\ UNCHANGED <<overlayVars, cliVars>>

AppendEntry(opName, entry) ==
    /\ fileEntries' = Append(fileEntries, entry)
    /\ byId' = MapSet(byId, entry.id, entry)
    /\ leafId' = entry.id
    /\ slast' = [op |-> opName, arg |-> NULL, ok |-> TRUE, ret |-> entry.id]
    /\ UNCHANGED <<sessionId, script>>
    /\ UNCHANGED <<overlayVars, cliVars>>

AppendMessage ==
    \E kind \in script \cap MessageKinds, timestamp \in Times, id \in generateId(byId) :
        /\ Len(getEntries) < MaxEntries
        /\ AppendEntry("appendMessage",
                       MessageEntry(id, leafId, timestamp, AppendMessages[kind]))
        /\ UNCHANGED <<agentVars, tuiVars>>

AppendModelChange ==
    \E timestamp \in Times, id \in generateId(byId) :
        /\ "model_change" \in script
        /\ Len(getEntries) < MaxEntries
        /\ AppendEntry("appendModelChange",
                       ModelChangeEntry(id, leafId, timestamp, "openai", "gpt-4"))
        /\ UNCHANGED <<agentVars, tuiVars>>

AppendCompaction ==
    \E timestamp \in Times, id \in generateId(byId) :
        /\ "compaction" \in script
        /\ Len(getEntries) < MaxEntries
        /\ AppendEntry("appendCompaction",
                       CompactionEntry(id, leafId, timestamp, "summary", leafId))
        /\ UNCHANGED <<agentVars, tuiVars>>

branch_Unchecked(branchFromId) ==
    /\ leafId' = branchFromId
    /\ slast' = [op |-> "branch", arg |-> branchFromId, ok |-> TRUE, ret |-> NULL]
    /\ UNCHANGED <<sessionId, fileEntries, byId, script>>
    /\ UNCHANGED <<overlayVars, cliVars>>

\* branch(branchFromId): throws "Entry <id> not found" for an unknown id
branch(branchFromId) ==
    IF ~MapHas(byId, branchFromId)
    THEN /\ slast' = [op |-> "branch", arg |-> branchFromId, ok |-> FALSE, ret |-> NULL]
         /\ UNCHANGED <<sessionId, fileEntries, byId, leafId, script>>
         /\ UNCHANGED <<overlayVars, cliVars>>
    ELSE /\ leafId' = branchFromId
         /\ slast' = [op |-> "branch", arg |-> branchFromId, ok |-> TRUE, ret |-> NULL]
         /\ UNCHANGED <<sessionId, fileEntries, byId, script>>
         /\ UNCHANGED <<overlayVars, cliVars>>

Branch ==
    \E branchFromId \in MapKeys(byId) \cup {INVALID} :
        branch(branchFromId) /\ UNCHANGED <<agentVars, tuiVars>>

resetLeaf_DropIndex ==
    /\ leafId' = NULL
    /\ byId' = <<>>
    /\ slast' = [op |-> "resetLeaf", arg |-> NULL, ok |-> TRUE, ret |-> NULL]
    /\ UNCHANGED <<sessionId, fileEntries, script>>
    /\ UNCHANGED <<overlayVars, cliVars>>

resetLeaf ==
    /\ leafId' = NULL
    /\ slast' = [op |-> "resetLeaf", arg |-> NULL, ok |-> TRUE, ret |-> NULL]
    /\ UNCHANGED <<sessionId, fileEntries, byId, script>>
    /\ UNCHANGED <<overlayVars, cliVars>>

ResetLeaf == resetLeaf /\ UNCHANGED <<agentVars, tuiVars>>

\* newSession(): a new header, an empty index, no leaf
newSession ==
    /\ sessionId' = randomUUID({})
    /\ fileEntries' = <<SessionHeader(sessionId')>>
    /\ byId' = <<>>
    /\ leafId' = NULL
    /\ slast' = [op |-> "newSession", arg |-> NULL, ok |-> TRUE, ret |-> NULL]
    /\ UNCHANGED script
    /\ UNCHANGED <<overlayVars, cliVars>>

NewSession == newSession /\ UNCHANGED <<agentVars, tuiVars>>

NextSession ==
    \/ AppendMessage
    \/ AppendModelChange
    \/ AppendCompaction
    \/ Branch
    \/ ResetLeaf
    \/ NewSession

SpecSession == InitSession /\ [][NextSession]_vars

-----------------------------------------------------------------------------
(* Agent.prompt (src/src/agent/index.ts): the retry loop around the tool    *)
(* loop. One action is the code between two awaits. The provider and the   *)
(* tools follow a plan drawn when the prompt starts: the first `fails`      *)
(* attempts fail (the provider rejects, a tool rejects, or the provider     *)
(* names an unknown tool), an attempt answers `toolSteps` steps with        *)
(* `perStep` tool calls and then with text. An abort arrives at any time.   *)

\* config.maxRetries of the agent
MaxRetries == 2

\* config.maxToolIterations of the agent
MaxToolIterations == 2

config == [maxRetries |-> MaxRetries, maxToolIterations |-> MaxToolIterations]

NON_RETRYABLE_ERROR_NAMES == {"AI_LoadAPIKeyError", "MissingApiKeyError"}

isNonRetryableError_Never(error) == FALSE

isNonRetryableError(error) == error.name \in NON_RETRYABLE_ERROR_NAMES

MAX_ITERATIONS_CONTENT == "Max tool iterations reached"

\* new Error(message)
NewError(message) == [name |-> "Error", message |-> message]

ABORTED == NewError("Aborted")

\* which failure a failing attempt meets, and the name of its error
FailureKinds ==
    {[at |-> "provider", name |-> n] : n \in {"Error"} \cup NON_RETRYABLE_ERROR_NAMES}
    \cup {[at |-> "tool", name |-> "Error"], [at |-> "unknown", name |-> "Error"]}

\* what the provider and the tools do during one prompt
Plans ==
    {[fails |-> f, failure |-> k, toolSteps |-> s, perStep |-> n, ids |-> i] :
        f \in 1..MaxRetries, k \in FailureKinds, s \in 0..(MaxToolIterations + 1),
        n \in 1..2,
        i \in {"provider", "fallback"}}
    \cup {[fails |-> 0, failure |-> NoFailure, toolSteps |-> s, perStep |-> n, ids |-> i] :
             s \in 0..(MaxToolIterations + 1), n \in 1..2, i \in {"provider", "fallback"}}

\* the error an attempt's failure throws
AttemptError(plan, attempt) ==
    [name |-> plan.failure.name, message |-> "failure of attempt " \o ToString(attempt)]

\* the text the provider streams as the answer of an attempt
AnswerText(attempt) == "answer of attempt " \o ToString(attempt)

\* TRUE when step `iter` of the attempt is where the plan makes it fail
FailsHere(plan, attempt, iter) == attempt <= plan.fails /\ iter = plan.toolSteps

\* the tool calls of one provider answer; a call without toolCallId gets
\* `${toolName}-${Date.now()}` from the agent
PlannedCalls(plan, attempt, iter) ==
    [k \in 1..plan.perStep |->
        [toolCallId |-> IF plan.ids = "provider"
                        THEN "call-" \o ToString(attempt) \o ToString(iter) \o ToString(k)
                        ELSE ABSENT,
         toolName |-> IF /\ FailsHere(plan, attempt, iter)
                         /\ plan.failure.at = "unknown"
                         /\ k = plan.perStep
                      THEN "nope" ELSE "read",
         rejects |-> /\ FailsHere(plan, attempt, iter)
                     /\ plan.failure.at = "tool"
                     /\ k = plan.perStep]]

\* provider.streamText and the stream it resolves to
ProviderAnswer(plan, attempt, iter) ==
    IF FailsHere(plan, attempt, iter) /\ plan.failure.at = "provider"
    THEN [kind |-> "throw", content |-> "", toolCalls |-> <<>>]
    ELSE IF iter < plan.toolSteps \/ FailsHere(plan, attempt, iter)
    THEN [kind |-> "tools", content |-> "", toolCalls |-> PlannedCalls(plan, attempt, iter)]
    ELSE [kind |-> "text", content |-> AnswerText(attempt), toolCalls |-> <<>>]

\* this.tools.get(toolName)
ToolNames == {"read", "write", "edit", "bash"}

RECURSIVE AppendAll(_, _)
\* appendMessage for every message of msgs, in order: the log, the index
\* and the leaf after the appends
AppendAll(st, msgs) ==
    IF msgs = <<>> THEN st
    ELSE LET id == CHOOSE x \in generateId(st.byId) : TRUE
             entry == MessageEntry(id, st.leafId, now, Head(msgs))
         IN AppendAll([fileEntries |-> Append(st.fileEntries, entry),
                       byId |-> MapSet(st.byId, id, entry),
                       leafId |-> id],
                      Tail(msgs))

SessionNow == [fileEntries |-> fileEntries, byId |-> byId, leafId |-> leafId]

AssistantMessage(content, invocations) ==
    [role |-> "assistant", content |-> content, toolInvocations |-> invocations,
     provider |-> "anthropic", model |-> "claude"]

ToolMessage(tc) ==
    [role |-> "tool", content |-> tc.result, toolInvocations |-> <<tc.toolCallId>>,
     provider |-> ABSENT, model |-> ABSENT]

IterationMessages_ToolsFirst(content, tcs) ==
    [i \in 1..Len(tcs) |-> ToolMessage(tcs[i])]
    \o <<AssistantMessage(content, [i \in 1..Len(tcs) |-> tcs[i].toolCallId])>>

\* the messages one tool iteration appends: the assistant message with the
\* invocations, then a tool message for each
IterationMessages(content, tcs) ==
    <<AssistantMessage(content, [i \in 1..Len(tcs) |-> tcs[i].toolCallId])>>
    \o [i \in 1..Len(tcs) |-> ToolMessage(tcs[i])]

loopContinues_OneMore(iter) == iter <= config.maxToolIterations

\* while (iteration < maxToolIterations)
loopContinues(iter) == iter < config.maxToolIterations

Returned(content, tcs) == [kind |-> "returned", content |-> content, toolCalls |-> tcs, error |-> ""]

Threw(error) == [kind |-> "threw", content |-> "", toolCalls |-> <<>>, error |-> error.message]

catchError_NoAbortCheck(error) ==
    IF isNonRetryableError(error) THEN [pc |-> "threw", retries |-> retries, error |-> error]
    ELSE IF retries + 1 >= config.maxRetries
    THEN [pc |-> "threw", retries |-> retries + 1, error |-> error]
    ELSE [pc |-> "sleep", retries |-> retries + 1, error |-> error]

\* the catch block: where the prompt goes after `error` was thrown in the try block
catchError(error) ==
    IF aborted THEN [pc |-> "threw", retries |-> retries, error |-> ABORTED]
    ELSE IF isNonRetryableError(error) THEN [pc |-> "threw", retries |-> retries, error |-> error]
    ELSE IF retries + 1 >= config.maxRetries
    THEN [pc |-> "threw", retries |-> retries + 1, error |-> error]
    ELSE [pc |-> "sleep", retries |-> retries + 1, error |-> error]

\* JSON.stringify of a tool's result, a string
StringifyResult(r) == "\"" \o r \o "\""

\* SessionManager.inMemory() and an Agent that has not been prompted
InitAgent ==
    /\ OverlayUnused
    /\ sessionId = randomUUID({})
    /\ fileEntries = <<SessionHeader(randomUUID({}))>>
    /\ byId = <<>>
    /\ leafId = NULL
    /\ script = {}
    /\ slast = NoSessionCall
    /\ AgentUnused
    /\ TuiUnused
    /\ CliUnused

agentFrame == UNCHANGED <<overlayVars, sessionVars, cliVars, tuiVars>>

\* prompt(message) up to the first provider step: the user message is
\* appended, the locals are initialised, the first attempt begins
Prompt ==
    \E plan \in Plans, timestamp \in Times, id \in generateId(byId) :
        /\ pc = "idle"
        /\ AppendEntry("appendMessage",
                       MessageEntry(id, leafId, timestamp, AppendMessages.user))
        /\ now' = timestamp
        /\ aborted' = FALSE
        /\ retries' = 0
        /\ iteration' = 0
        /\ iterationContent' = ""
        /\ pendingCalls' = <<>>
        /\ toolCalls' = <<>>
        /\ allToolCalls' = <<>>
        /\ result' = NoResult
        /\ ahist' = [NoPromptHistory EXCEPT !.plan = plan, !.attempts = 1]
        /\ pc' = "step"
        /\ UNCHANGED tuiVars

\* this.abortController.abort(), or the caller's signal
Abort ==
    /\ pc \in {"step", "stream", "tools", "exec", "sleep"}
    /\ ~aborted
    /\ aborted' = TRUE
    /\ UNCHANGED <<pc, retries, iteration, iterationContent, pendingCalls, toolCalls,
                   allToolCalls, result, now, ahist>>
    /\ agentFrame

\* `error` is thrown inside the try block: the catch block decides;
\* `real` tells an error of the provider or of a tool from the check's "Aborted"
Fail(error, real, ran) ==
    LET c == catchError(error)
    IN /\ pc' = c.pc
       /\ retries' = c.retries
       /\ result' = IF c.pc = "threw" THEN Threw(c.error) ELSE result
       /\ ahist' = [ahist EXCEPT !.failures = IF real THEN Append(@, error) ELSE @,
                                 !.observed = @ \/ ~real \/ c.error = ABORTED,
                                 !.finished = @ + ran]
       /\ UNCHANGED <<iteration, iterationContent, pendingCalls, toolCalls, allToolCalls,
                      aborted, now>>
       /\ agentFrame

\* the top of the tool loop: the abort check, the context, provider.streamText
ProviderStep ==
    LET answer == ProviderAnswer(ahist.plan, ahist.attempts, iteration)
    IN /\ pc = "step"
       /\ IF aborted THEN Fail(ABORTED, FALSE, 0)
          ELSE IF answer.kind = "throw"
          THEN Fail(AttemptError(ahist.plan, ahist.attempts), TRUE, 0)
          ELSE /\ pc' = "stream"
               /\ iterationContent' = ""
               /\ toolCalls' = <<>>
               /\ pendingCalls' = <<>>
               /\ ahist' = [ahist EXCEPT !.answers = Append(@, answer.kind)]
               /\ UNCHANGED <<retries, iteration, allToolCalls, aborted, result, now>>
               /\ agentFrame

\* the stream is read: the abort check between chunks, then the answer
\* without tool calls is appended and returned, or the tool loop begins
StreamEnd ==
    LET answer == ProviderAnswer(ahist.plan, ahist.attempts, iteration)
        st == AppendAll(SessionNow, <<AssistantMessage(answer.content, <<>>)>>)
    IN /\ pc = "stream"
       /\ IF aborted /\ answer.content # "" THEN Fail(ABORTED, FALSE, 0)
          ELSE IF Len(answer.toolCalls) = 0
          THEN /\ pc' = "returned"
               /\ iterationContent' = answer.content
               /\ result' = Returned(answer.content,
                                     IF Len(allToolCalls) > 0 THEN allToolCalls ELSE UNDEFINED)
               /\ fileEntries' = st.fileEntries
               /\ byId' = st.byId
               /\ leafId' = st.leafId
               /\ UNCHANGED <<retries, iteration, pendingCalls, toolCalls, allToolCalls,
                              aborted, now, ahist>>
               /\ UNCHANGED <<sessionId, script, slast, overlayVars, cliVars, tuiVars>>
          ELSE /\ pc' = "tools"
               /\ iterationContent' = answer.content
               /\ pendingCalls' = answer.toolCalls
               /\ UNCHANGED <<retries, iteration, toolCalls, allToolCalls, aborted, result,
                              now, ahist>>
               /\ agentFrame

\* before the next tool call: the abort check, the lookup of the tool,
\* then tool.execute is called
ToolStart ==
    LET call == Head(pendingCalls)
    IN /\ pc = "tools"
       /\ IF aborted THEN Fail(ABORTED, FALSE, 0)
          ELSE IF call.toolName \notin ToolNames
          THEN Fail(NewError("Unknown tool: " \o call.toolName), TRUE, 0)
          ELSE /\ pc' = "exec"
               /\ ahist' = [ahist EXCEPT !.started = @ + 1]
               /\ UNCHANGED <<retries, iteration, iterationContent, pendingCalls, toolCalls,
                              allToolCalls, aborted, result, now>>
               /\ agentFrame

\* tool.execute settles: a rejection goes to the catch block; a result is
\* pushed, and after the last call of the answer the iteration's entries
\* are appended and the loop goes on or ends with "Max tool iterations reached"
ToolFinish ==
    LET call == Head(pendingCalls)
        toolResult == "result " \o ToString(ahist.started)
        toolCallId == IF call.toolCallId # ABSENT THEN call.toolCallId
                      ELSE call.toolName \o "-" \o ToString(now)
        tcs == Append(toolCalls, [toolCallId |-> toolCallId, toolName |-> call.toolName,
                                  result |-> StringifyResult(toolResult)])
        all == Append(allToolCalls, [name |-> call.toolName, result |-> toolResult])
        st == AppendAll(SessionNow, IterationMessages(iterationContent, tcs))
        done == AppendAll(st, <<AssistantMessage(MAX_ITERATIONS_CONTENT, <<>>)>>)
    IN /\ pc = "exec"
       /\ IF call.rejects THEN Fail(AttemptError(ahist.plan, ahist.attempts), TRUE, 1)
          ELSE /\ allToolCalls' = all
               /\ ahist' = [ahist EXCEPT !.finished = @ + 1]
               /\ UNCHANGED <<retries, iterationContent, aborted, now>>
               /\ UNCHANGED <<sessionId, script, slast, overlayVars, cliVars, tuiVars>>
               /\ IF Len(pendingCalls) > 1
                  THEN /\ pc' = "tools"
                       /\ pendingCalls' = Tail(pendingCalls)
                       /\ toolCalls' = tcs
                       /\ UNCHANGED <<iteration, result, fileEntries, byId, leafId>>
                  ELSE /\ pendingCalls' = <<>>
                       /\ toolCalls' = tcs
                       /\ iteration' = iteration + 1
                       /\ IF loopContinues(iteration + 1)
                          THEN /\ pc' = "step"
                               /\ result' = result
                               /\ fileEntries' = st.fileEntries
                               /\ byId' = st.byId
                               /\ leafId' = st.leafId
                          ELSE /\ pc' = "returned"
                               /\ result' = Returned(MAX_ITERATIONS_CONTENT, all)
                               /\ fileEntries' = done.fileEntries
                               /\ byId' = done.byId
                               /\ leafId' = done.leafId

\* the wait before the next attempt is over: the tool loop starts again
Wake ==
    /\ pc = "sleep"
    /\ pc' = "step"
    /\ iteration' = 0
    /\ ahist' = [ahist EXCEPT !.attempts = @ + 1]
    /\ UNCHANGED <<retries, iterationContent, pendingCalls, toolCalls, allToolCalls, aborted,
                   result, now>>
    /\ agentFrame

\* clearMessages() between prompts
ClearMessages ==
    /\ pc \in {"returned", "threw"}
    /\ leafId # NULL
    /\ resetLeaf
    /\ UNCHANGED <<agentVars, tuiVars>>

NextAgent ==
    \/ Prompt
    \/ Abort
    \/ ProviderStep
    \/ StreamEnd
    \/ ToolStart
    \/ ToolFinish
    \/ Wake
    \/ ClearMessages

SpecAgent == InitAgent /\ [][NextAgent]_vars

-----------------------------------------------------------------------------
(* A run of the program (src/unnamed/part_022, main) from its last prompt   *)
(* to its end, and the run that resumes the session: a one-shot run ends    *)
(* after agent.prompt, an interactive run in handleShutdown; a later run    *)
(* with the same session id opens the session with loadSession.             *)

\* the output modes; "interactive" is the TUI (text mode without a prompt)
Modes == {"text", "json", "rpc", "interactive"}

HistoryUser == MessageEntry(<<"short", "a">>, NULL, 1, AppendMessages.user)

HistoryAnswer == MessageEntry(<<"uuid", 2>>, HistoryUser.id, 2, AppendMessages.tagged)

\* the log and the leaf of a session at the end of a run: no prompt yet, a
\* prompt without an answer, a prompt with its answer
Histories ==
    {[entries |-> <<>>, leafId |-> NULL],
     [entries |-> <<HistoryUser>>, leafId |-> HistoryUser.id],
     [entries |-> <<HistoryUser, HistoryAnswer>>, leafId |-> HistoryAnswer.id]}

\* the run's session as its tools left it: the overlay's two sets, one
\* delta content for every modified path, the session's log
InitMain ==
    /\ \E m \in DupFreePathLists, d \in DupFreePathLists, h \in Histories :
           /\ modifiedFiles = m
           /\ deletedFiles = d
           /\ delta = [p \in Paths |-> IF p \in Elems(m) THEN <<Letters[1]>> ELSE NoFile]
           /\ touched = Elems(m) \cup Elems(d)
           /\ fileEntries = <<SessionHeader(randomUUID({}))>> \o h.entries
           /\ byId = h.entries
           /\ leafId = h.leafId
    /\ base = MkBase(NoNode, NoNode, NoNode)
    /\ phase = "active"
    /\ targets = {PA}
    /\ last = NoCall
    /\ loaded = NotLoaded
    /\ sessionId = randomUUID({})
    /\ script = {}
    /\ slast = NoSessionCall
    /\ AgentUnused
    /\ TuiUnused
    /\ applyPc = "none"
    /\ session = NULL
    /\ applied = 0
    /\ console = <<>>
    /\ deltaOpen = TRUE
    /\ cursor = 0
    /\ chist = NULL
    /\ mode \in Modes
    /\ mainPc = "running"

\* what the session was when its first run ended
AtClose(failed) ==
    [entries |-> getEntries, leafId |-> leafId, modified |-> modifiedFiles,
     deleted |-> deletedFiles, persistFailed |-> failed]

\* the end of a run: the delta layer is closed, the process exits
EndRun(failed) ==
    /\ mainPc \in {"running", "resumed"}
    /\ mainPc' = IF mainPc = "running" THEN "ended" ELSE "finished"
    /\ chist' = IF mainPc = "running" THEN AtClose(failed) ELSE chist
    /\ deltaOpen' = FALSE
    /\ UNCHANGED <<base, modifiedFiles, deletedFiles, targets, touched, loaded>>
    /\ UNCHANGED <<sessionVars, agentVars, applyPc, session, applied, cursor, mode, tuiVars>>

\* a one-shot run (a prompt in text, json or rpc mode): agent.prompt returns
\* and the response is printed, or it throws and the error is; then the
\* session is closed
PromptEnd ==
    \E outcome \in {"returned", "threw"} :
        /\ mode \in {"text", "json", "rpc"}
        /\ console' = Append(console, IF outcome = "threw" THEN ErrorLine("prompt")
                                      ELSE Line("response", <<>>, 0))
        /\ UNCHANGED <<delta, phase, last>>
        /\ EndRun(FALSE)

\* handleShutdown of an interactive run: the manifest is persisted when a
\* set is not empty (a rejection is swallowed), then the session is closed
Shutdown ==
    \E fails \in Faults({"writeFile"}) :
        LET o == persistManifest(fails)
            changed == Len(modifiedFiles) > 0 \/ Len(deletedFiles) > 0
        IN /\ mode = "interactive"
           /\ delta' = IF changed THEN o.delta ELSE delta
           /\ phase' = IF changed /\ o.res.ok THEN "persisted" ELSE phase
           /\ last' = IF changed
                      THEN [NoCall EXCEPT !.op = "persistManifest", !.path = MANIFEST_PATH,
                                          !.ok = o.res.ok]
                      ELSE last
           /\ console' = IF changed THEN Append(console, Line("Session ended", <<>>,
                                                    Len(modifiedFiles) + Len(deletedFiles)))
                         ELSE console
           /\ EndRun(changed /\ ~o.res.ok)

\* a later run with the session's id: loadSession(id) opens the delta layer
\* and constructs SessionManager.create(cwd) and a new OverlayAgentFS
LoadSession ==
    /\ mainPc = "ended"
    /\ mainPc' = "resumed"
    /\ deltaOpen' = TRUE
    /\ sessionId' = randomUUID({})
    /\ fileEntries' = <<SessionHeader(sessionId')>>
    /\ byId' = <<>>
    /\ leafId' = NULL
    /\ slast' = NoSessionCall
    /\ modifiedFiles' = <<>>
    /\ deletedFiles' = <<>>
    /\ phase' = "active"
    /\ last' = NoCall
    /\ UNCHANGED <<base, delta, targets, touched, loaded, script>>
    /\ UNCHANGED <<agentVars, applyPc, session, applied, console, cursor, chist, mode, tuiVars>>

\* a tool of the resumed run writes a file
ResumedWrite == mainPc = "resumed" /\ phase = "active" /\ last.op = "none" /\ WriteFile

NextMain ==
    \/ PromptEnd
    \/ Shutdown
    \/ LoadSession
    \/ ResumedWrite

SpecMain == InitMain /\ [][NextMain]_vars

-----------------------------------------------------------------------------
(* The interactive UI (src/src/tui/index.ts, ZiTui): the handlers of a     *)
(* submitted line, of a slash command and of ctrl+c, and the settling of   *)
(* the agent.prompt a submitted message awaits. Agent.prompt is taken by   *)
(* what it does to the session: the user entry when it is called, the      *)
(* assistant entry when it returns.                                        *)

SLASH_COMMAND_NAMES == {"help", "clear", "quit", "resume", "skills", "init", "plan"}

SLASH_COMMAND_SPECS ==
    [name \in SLASH_COMMAND_NAMES |-> [allowWhileRunning |-> name \in {"help", "quit"}]]

\* the first word of a line that starts with "/", without the "/", lower case
SlashWords == SLASH_COMMAND_NAMES \cup {"skill"}

\* parseSlashCommand: the command, or the error it throws
parseSlashCommand(rawName) ==
    IF rawName \in SLASH_COMMAND_NAMES THEN [ok |-> TRUE, name |-> rawName, error |-> ""]
    ELSE [ok |-> FALSE, name |-> rawName, error |-> "Unknown slash command: /" \o rawName]

isCommandAvailableWhileRunning_Always(command) == TRUE

isCommandAvailableWhileRunning(command) == SLASH_COMMAND_SPECS[command.name].allowWhileRunning

Status(mode_, text) == [mode |-> mode_, text |-> text]

\* what the switch of handleSlashCommand leaves in the status bar
SlashStatus ==
    [help |-> Status("info", "Help listed"),
     clear |-> Status("info", "Conversation cleared"),
     quit |-> Status("info", "Exiting..."),
     resume |-> Status("info", "Session status shown"),
     skills |-> Status("info", "Skills listed"),
     init |-> Status("info", "Init guidance shown"),
     plan |-> Status("info", "Plan guidance shown")]

\* a session without entries, the UI constructed and idle
InitTui ==
    /\ OverlayUnused
    /\ sessionId = randomUUID({})
    /\ fileEntries = <<SessionHeader(randomUUID({}))>>
    /\ byId = <<>>
    /\ leafId = NULL
    /\ script = {}
    /\ slast = NoSessionCall
    /\ AgentUnused
    /\ TuiUnused
    /\ CliUnused

\* the input is noted in the history
Handled(input) == thist' = [input |-> input, during |-> inFlight, tick |-> ~thist.tick]

tuiFrame == UNCHANGED <<overlayVars, sessionVars, agentVars, cliVars>>

\* handleSubmit of a line that is no slash command, up to its await: a
\* message typed while a request runs is turned away; otherwise inFlight
\* is set and agent.prompt is called, which appends the user entry
SubmitMessage ==
    /\ ~exiting
    /\ Handled("message")
    /\ IF inFlight
       THEN /\ statusBar' = Status("busy", "Previous request still running")
            /\ UNCHANGED <<inFlight, requests, helpShown, exiting>>
            /\ tuiFrame
       ELSE \E timestamp \in Times, id \in generateId(byId) :
                /\ Len(getEntries) + 2 <= MaxEntries
                /\ inFlight' = TRUE
                /\ requests' = requests + 1
                /\ statusBar' = Status("busy", "Thinking...")
                /\ AppendEntry("appendMessage",
                               MessageEntry(id, leafId, timestamp, AppendMessages.user))
                /\ UNCHANGED <<helpShown, exiting, agentVars>>

\* the agent.prompt that handleSubmit awaits settles: the try block's end
\* or the catch block, then the finally block
Settle ==
    \E resolved \in BOOLEAN, timestamp \in Times, id \in generateId(byId) :
        /\ ~exiting
        /\ requests > 0
        /\ requests' = requests - 1
        /\ inFlight' = FALSE
        /\ statusBar' = IF resolved THEN READY ELSE Status("error", "Error")
        /\ IF resolved
           THEN /\ AppendEntry("appendMessage",
                               MessageEntry(id, leafId, timestamp, AppendMessages.tagged))
                /\ UNCHANGED agentVars
           ELSE tuiFrame
        /\ UNCHANGED <<helpShown, exiting, thist>>

\* handleSubmit of a line that starts with "/": parseSlashCommand, then
\* handleSlashCommand
SubmitSlash ==
    \E rawName \in SlashWords :
        LET command == parseSlashCommand(rawName)
            name == command.name
        IN /\ ~exiting
           /\ Handled(rawName)
           /\ UNCHANGED <<inFlight, requests>>
           /\ IF ~command.ok
              THEN /\ statusBar' = Status("error", command.error)
                   /\ UNCHANGED <<helpShown, exiting>>
                   /\ tuiFrame
              ELSE IF inFlight /\ ~isCommandAvailableWhileRunning(command)
              THEN /\ statusBar' = Status("error", "/" \o name
                                                   \o " is unavailable while a request is running")
                   /\ UNCHANGED <<helpShown, exiting>>
                   /\ tuiFrame
              ELSE /\ statusBar' = SlashStatus[name]
                   /\ helpShown' = IF name = "help" THEN ~helpShown ELSE helpShown
                   /\ exiting' = (name = "quit")
                   /\ IF name = "clear"
                      THEN resetLeaf /\ UNCHANGED agentVars
                      ELSE tuiFrame

\* ctrl+c: a running request is aborted, an idle UI exits
CtrlC ==
    /\ ~exiting
    /\ Handled("ctrl+c")
    /\ statusBar' = IF inFlight THEN Status("busy", "Cancelling request...") ELSE statusBar
    /\ exiting' = ~inFlight
    /\ UNCHANGED <<inFlight, requests, helpShown>>
    /\ tuiFrame

NextTui ==
    \/ SubmitMessage
    \/ Settle
    \/ SubmitSlash
    \/ CtrlC

SpecTui == InitTui /\ [][NextTui]_vars

-----------------------------------------------------------------------------
(* A session from its first overlay call to `zi apply`: the overlay calls  *)
(* of Spec, a write through the FileHandle that open returned (the delta    *)
(* layer's own handle, so the write reaches the delta layer and nothing     *)
(* else), the shutdown that persists the manifest, and applySession on the  *)
(* disk the session left.                                                   *)

\* handle.writeFile(data) on the handle the last call, a successful open,
\* returned
HandleWrite ==
    \E data \in Contents, fails \in Faults({"writeFile"}) :
        /\ last.op = "open"
        /\ last.ok
        /\ Apply(Out(base, DeltaWriteFile(delta, last.path, data, fails).files, modifiedFiles,
                     deletedFiles, DeltaWriteFile(delta, last.path, data, fails).res, FALSE,
                     data),
                 "handle.writeFile", last.path, <<>>, {last.path})

\* `zi apply <id>` is started after the session's process has ended
ApplyBegin ==
    /\ phase = "persisted"
    /\ applyPc = "none"
    /\ applyPc' = "start"
    /\ mainPc' = "apply"
    /\ deltaOpen' = FALSE
    /\ chist' = ApplyHistory(base, [modified |-> modifiedFiles, deleted |-> deletedFiles], FALSE)
    /\ UNCHANGED <<session, applied, console, cursor, mode>>
    /\ UNCHANGED <<overlayVars, sessionVars, agentVars, tuiVars>>

NextRoundTrip ==
    \/ Next
    \/ HandleWrite
    \/ ApplyBegin
    \/ NextApply

SpecRoundTrip == Init /\ [][NextRoundTrip]_vars

-----------------------------------------------------------------------------
(* Claims *)

IsDelete(op) == op \in {"unlink", "rmdir", "rm"}

\* what a read of p yields, whichever read it is
AllReadsFail(p, fails) ==
    /\ readFile(p, fails) = ENOENT
    /\ stat(p, fails) = ENOENT
    /\ lstat(p, fails) = ENOENT
    /\ access(p, fails) = ENOENT
    /\ readlink(p, fails) = ENOENT

ReadFaults == Faults({"readFile", "stat", "access"})

\* C1: no path is in both the modified set and the deleted set.
C1_ManifestDisjoint == Elems(modifiedFiles) \cap Elems(deletedFiles) = {}

\* C2: no overlay call changes the base (real-disk) filesystem.
C2_BaseNeverWritten == [][base' = base]_vars

\* a write has landed in the delta layer over a base file of other content
C2_Witness ==
    /\ last.op = "writeFile" /\ last.ok
    /\ base[last.path].kind = "file"
    /\ delta[last.path] # NoFile
    /\ delta[last.path] # base[last.path].data

\* C3: unlink, rmdir and rm never fail, also when the delegated delete
\* rejects or the path is only in the base; afterwards the path is
\* tombstoned, not modified, and every read of it fails with ENOENT.
C3_DeleteTombstones ==
    IsDelete(last.op) =>
        /\ last.ok
        /\ SetHas(deletedFiles, last.path)
        /\ ~SetHas(modifiedFiles, last.path)
        /\ \A fails \in ReadFaults : AllReadsFail(last.path, fails)

\* a delete whose delegation rejected (the delta still holds the file) on a
\* path the base has as well
C3_Witness ==
    /\ IsDelete(last.op)
    /\ base[last.path].kind = "file"
    /\ delta[last.path] # NoFile

\* C4: after a successful writeFile(p, c), readFile(p) returns c, p is
\* modified and not tombstoned.
C4_ReadAfterWrite ==
    (last.op = "writeFile" /\ last.ok) =>
        /\ readFile(last.path, {}) = Ok(last.data)
        /\ SetHas(modifiedFiles, last.path)
        /\ ~SetHas(deletedFiles, last.path)

\* a successful write over a base file of other content
C4_Witness ==
    /\ last.op = "writeFile" /\ last.ok
    /\ base[last.path].kind = "file"
    /\ base[last.path].data # last.data

\* C5: a path no write-class or delete-class call has named reads (readFile,
\* stat) exactly as the base does.
C5_UntouchedReadsBase ==
    \A p \in Paths \ touched :
        /\ readFile(p, {}) = BaseReadFile(p)
        /\ stat(p, {}) = BaseStat(p)

\* a base file never named, while another path was written into the delta
C5_Witness ==
    \E p \in Paths \ touched, q \in touched :
        /\ base[p].kind = "file"
        /\ delta[q] # NoFile

\* C6: a successful rename(a, b), a # b, that copied a up from the base
\* leaves the base content of a at b in the delta and nothing at a;
\* readFile(b) returns it, readFile(a) fails with ENOENT, a is tombstoned
\* and not modified, b is modified and not tombstoned.
C6_RenameBaseOnly ==
    (last.op = "rename" /\ last.ok /\ last.copiedUp /\ last.path # last.path2) =>
        /\ delta[last.path2] = base[last.path].data
        /\ delta[last.path] = NoFile
        /\ readFile(last.path2, {}) = BaseReadFile(last.path)
        /\ BaseReadFile(last.path).ok
        /\ readFile(last.path, {}) = ENOENT
        /\ SetHas(deletedFiles, last.path) /\ ~SetHas(modifiedFiles, last.path)
        /\ SetHas(modifiedFiles, last.path2) /\ ~SetHas(deletedFiles, last.path2)

C6_Witness ==
    /\ last.op = "rename" /\ last.ok /\ last.copiedUp
    /\ last.path # last.path2
    /\ base[last.path].kind = "file"

\* the names readdir(d) is to list: those of the delta and of the base,
\* without the tombstoned children d/n
ListedNames(d) ==
    LET dn == DeltaReaddir(delta, d, {})
        bn == BaseReaddir(d)
        all == (IF dn.ok THEN Elems(dn.val) ELSE {}) \cup (IF bn.ok THEN Elems(bn.val) ELSE {})
    IN {n \in all : ~SetHas(deletedFiles, DirPrefix(d) \o n)}

\* C7: a readdir(d) that succeeds lists, without duplicates, exactly the
\* delta's and the base's names for d minus the tombstoned children d/n.
C7_ReaddirUnionMinusDeleted ==
    \A d \in Paths :
        readdir(d, {}).ok =>
            /\ NoDup(readdir(d, {}).val)
            /\ Elems(readdir(d, {}).val) = ListedNames(d)

\* C8: a successful mkdir(p) or symlink(target, p) leaves p modified and
\* not tombstoned.
C8_MkdirSymlinkTracked ==
    (last.op \in {"mkdir", "symlink"} /\ last.ok) =>
        /\ SetHas(modifiedFiles, last.path)
        /\ ~SetHas(deletedFiles, last.path)

\* C9: after a successful copyFile(src, dest), readFile(dest) returns the
\* content copied and dest is modified.
C9_CopyReadable ==
    (last.op = "copyFile" /\ last.ok) =>
        /\ readFile(last.path2, {}) = Ok(last.data)
        /\ SetHas(modifiedFiles, last.path2)

\* C10: a persistManifest that succeeded on a non-empty manifest is read
\* back by loadManifest as the same modified and deleted lists; on an
\* empty manifest it writes nothing.
C10_ManifestRoundTrip ==
    (last.op = "persistManifest" /\ last.ok) =>
        IF Len(modifiedFiles) = 0 /\ Len(deletedFiles) = 0
        THEN delta[MANIFEST_PATH] = NoFile
        ELSE loadManifest(delta, {}) = [modified |-> modifiedFiles, deleted |-> deletedFiles]

\* a persisted manifest with a name that JSON escapes in each list
C10_Witness ==
    /\ last.op = "persistManifest" /\ last.ok
    /\ SetHas(modifiedFiles, PQUOTE)
    /\ SetHas(deletedFiles, PBACK)
    /\ delta[MANIFEST_PATH] # NoFile

\* C11: loadManifest always returns a manifest: the lists of an object
\* manifest (a missing list is empty), the array of a legacy manifest as
\* modified with nothing deleted, and two empty lists when the file is
\* missing, unreadable or unparseable
C11_LoadManifestTotal ==
    loaded.called =>
        LET t == delta[MANIFEST_PATH]
            r == loaded.result
        IN IF loaded.readFailed \/ t = NoFile THEN r = EmptyManifest
           ELSE /\ (t \in TruncatedTexts \/ t = NULL_TEXT \/ t = <<"{", "}">>)
                       => r = EmptyManifest
                /\ \A m \in DupFreeLists :
                       /\ t = StringifyArray(m) => r = [modified |-> m, deleted |-> <<>>]
                       /\ t = StringifyMember(KEY_MODIFIED, m)
                              => r = [modified |-> m, deleted |-> <<>>]
                       /\ t = StringifyMember(KEY_DELETED, m)
                              => r = [modified |-> <<>>, deleted |-> m]
                       /\ \A d \in DupFreeLists :
                              t = StringifyManifest([modified |-> m, deleted |-> d])
                                  => r = [modified |-> m, deleted |-> d]

\* a legacy array of two names, one of them escaped, has been loaded
C11_Witness ==
    /\ loaded.called
    /\ ~loaded.readFailed
    /\ delta[MANIFEST_PATH] # NoFile
    /\ delta[MANIFEST_PATH] = StringifyArray(<<PQUOTE, PA>>)
    /\ loaded.result = [modified |-> <<PQUOTE, PA>>, deleted |-> <<>>]

\* the name the manifest file has in its directory, the root
MANIFEST_NAME == Slice(MANIFEST_PATH, 1)

\* C12: once persistManifest has written the manifest, neither readdir nor
\* readdirPlus of the root lists the manifest file's name
C12_ManifestHidden ==
    (last.op = "persistManifest" /\ last.ok /\ delta[MANIFEST_PATH] # NoFile) =>
        /\ readdir(ROOT, {}).ok => ~SetHas(readdir(ROOT, {}).val, MANIFEST_NAME)
        /\ readdirPlus(ROOT, {}).ok => ~SetHas(readdirPlus(ROOT, {}).val, MANIFEST_NAME)

Appends == {"appendMessage", "appendModelChange", "appendCompaction"}

\* the entry appended last
Newest(entries) == entries[Len(entries)]

\* position of the entry with this id in the log
LogIndex(id) == CHOOSE i \in 1..Len(fileEntries) : fileEntries[i].id = id

EntryIds == {getEntries[i].id : i \in 1..Len(getEntries)}

\* C13: an append creates one entry whose parentId is the leafId of the
\* call (null for a session's first entry and after resetLeaf), adds it to
\* the log and to the index, moves leafId to it and returns its id
C13_AppendUnderLeaf ==
    [][slast'.op \in Appends /\ fileEntries' # fileEntries =>
          \E e \in {Newest(fileEntries')} :
              /\ fileEntries' = Append(fileEntries, e)
              /\ e.parentId = leafId
              /\ (slast.op \in {"none", "resetLeaf", "newSession"} => e.parentId = NULL)
              /\ e.type = CASE slast'.op = "appendMessage" -> "message"
                            [] slast'.op = "appendModelChange" -> "model_change"
                            [] OTHER -> "compaction"
              /\ ~MapHas(byId, e.id)
              /\ byId' = Append(byId, e)
              /\ leafId' = e.id
              /\ slast'.ret = e.id]_vars

\* a model change has been appended under an earlier entry
C13_Witness ==
    /\ slast.op = "appendModelChange"
    /\ leafId = slast.ret
    /\ getEntry(leafId).parentId # NULL

\* C14: the entries form a forest: ids pairwise distinct, every parentId
\* null or the id of an entry appended earlier, leafId null or in the index
C14_Forest ==
    LET entries == getEntries
    IN /\ \A i, j \in 1..Len(entries) : entries[i].id = entries[j].id => i = j
       /\ \A i \in 1..Len(entries) :
              \/ entries[i].parentId = NULL
              \/ \E j \in 1..(i - 1) : entries[j].id = entries[i].parentId
       /\ leafId = NULL \/ MapHas(byId, leafId)
       /\ byId = entries

\* the log is full, an id is a whole UUID, and the leaf is not the newest entry
C14_Witness ==
    /\ Len(getEntries) = MaxEntries
    /\ \E i \in 1..Len(getEntries) : getEntries[i].id[1] = "uuid"
    /\ leafId # NULL
    /\ leafId # Newest(fileEntries).id
    /\ Newest(fileEntries).parentId # NULL

\* C15: branch(id) with an unknown id throws and changes nothing; with a
\* known id it moves leafId to id and leaves the log and the index alone
C15_BranchChecked ==
    [][slast'.op = "branch" /\ slast' # slast =>
          IF MapHas(byId, slast'.arg)
          THEN slast'.ok /\ leafId' = slast'.arg /\ UNCHANGED <<fileEntries, byId>>
          ELSE ~slast'.ok /\ UNCHANGED <<leafId, fileEntries, byId>>]_vars

\* branch has thrown in a session that has a leaf
C15_Witness ==
    /\ slast.op = "branch"
    /\ ~slast.ok
    /\ slast.arg = INVALID
    /\ leafId # NULL
    /\ Len(getEntries) >= 2

Ascending(arr) == \A i \in 1..(Len(arr) - 1) : arr[i].timestamp <= arr[i + 1].timestamp

\* C16: an append right after branch(x) creates a child of x: getChildren(x)
\* grows by that one entry and is in ascending timestamp order, and no entry
\* appended after x before the branch is on the branch of the new leaf
C16_BranchThenAppend ==
    [][\A x \in MapKeys(byId) :
          (slast.op = "branch" /\ slast.ok /\ slast.arg = x /\ slast'.op \in Appends) =>
              \E e \in {Newest(fileEntries')} :
                  \E before \in {getChildren(x)} :
                      /\ e.parentId = x
                      /\ Len(getChildren(x)') = Len(before) + 1
                      /\ {getChildren(x)'[i] : i \in 1..Len(getChildren(x)')}
                             = {before[i] : i \in 1..Len(before)} \cup {e}
                      /\ Ascending(getChildren(x)')
                      /\ Newest(getBranch(UNDEFINED)') = e
                      /\ \A i \in 1..Len(fileEntries) :
                             i > LogIndex(x) =>
                                 \A k \in 1..Len(getBranch(UNDEFINED)') :
                                     getBranch(UNDEFINED)'[k] # fileEntries[i]]_vars

\* the newest entry is the leaf and has an elder sibling with a later timestamp
C16_Witness ==
    /\ slast.op \in Appends
    /\ leafId = Newest(fileEntries).id
    /\ Newest(fileEntries).parentId # NULL
    /\ Len(getChildren(Newest(fileEntries).parentId)) = 2
    /\ getChildren(Newest(fileEntries).parentId)[1] = Newest(fileEntries)
    /\ getChildren(Newest(fileEntries).parentId)[2].timestamp > Newest(fileEntries).timestamp

RECURSIVE TreeIds(_)
\* the ids of the entries of a list of tree nodes
TreeIds(nodes) ==
    UNION {{nodes[i].entry.id} \cup TreeIds(nodes[i].children) : i \in 1..Len(nodes)}

\* C17: resetLeaf changes only leafId, to null: the context built right
\* after it has no messages, every entry is still returned by getEntry,
\* getEntries and getTree, and the next append creates a new root
C17_ResetLeafKeepsEntries ==
    /\ [](slast.op = "resetLeaf" =>
             /\ leafId = NULL
             /\ buildSessionContext.messages = <<>>
             /\ \A i \in 1..Len(getEntries) :
                    /\ getEntry(getEntries[i].id) = getEntries[i]
                    /\ getEntries[i].id \in TreeIds(getTree)
                    /\ getEntries[i].parentId = NULL =>
                           \E k \in 1..Len(getTree) : getTree[k].entry = getEntries[i])
    /\ [][/\ slast'.op = "resetLeaf" =>
                /\ leafId' = NULL
                /\ UNCHANGED <<sessionId, fileEntries, byId>>
                /\ getEntries' = getEntries
          /\ (slast.op = "resetLeaf" /\ slast'.op \in Appends) =>
                /\ Newest(fileEntries').parentId = NULL
                /\ Newest(byId') = Newest(fileEntries')]_vars

\* the leaf of a session of two roots has been reset
C17_Witness ==
    /\ slast.op = "resetLeaf"
    /\ leafId = NULL
    /\ Len(getTree) = 2
    /\ Len(getEntries) = 3

\* C18: getBranch(fromId) is the parent chain of its start entry (fromId,
\* or the leaf by default), root first and start entry last; it is empty
\* when the start is null or unknown
C18_BranchIsParentChain ==
    \A fromId \in MapKeys(byId) \cup {UNDEFINED, INVALID} :
        \E start \in {IF fromId = UNDEFINED THEN leafId ELSE fromId} :
            \E b \in {getBranch(fromId)} :
                IF start = NULL \/ ~MapHas(byId, start) THEN b = <<>>
                ELSE /\ b # <<>>
                     /\ b[Len(b)] = MapGet(byId, start)
                     /\ b[1].parentId = NULL \/ ~MapHas(byId, b[1].parentId)
                     /\ \A i \in 2..Len(b) : b[i].parentId = b[i - 1].id
                     /\ \A i \in 1..Len(b) : MapHas(byId, b[i].id) /\ MapGet(byId, b[i].id) = b[i]

\* the branch of the leaf has two entries and leaves a third entry out
C18_Witness ==
    /\ Len(getBranch(UNDEFINED)) = 2
    /\ Len(getEntries) = 3
    /\ getBranch(UNDEFINED)[2] # Newest(fileEntries)

RECURSIVE AncestorIds(_, _)
\* S with the parents, grandparents, ... (n generations) of its entries
AncestorIds(S, n) ==
    IF n = 0 THEN S
    ELSE AncestorIds(S \cup {getEntries[i].parentId :
                                 i \in {k \in 1..Len(getEntries) : getEntries[k].id \in S}},
                     n - 1)

\* the entries on the path from the root to the current leaf, in log order
PathEntries ==
    SelectSeq(getEntries, LAMBDA e : e.id \in AncestorIds({leafId}, Len(getEntries)) \ {NULL})

\* C19: the context's messages are the Message entries on the path from the
\* root to the leaf, one message each, root first, and nothing else
C19_ContextIsCurrentBranch ==
    \E onPath \in {SelectSeq(PathEntries, LAMBDA e : e.type = "message")} :
        /\ Len(buildSessionContext.messages) = Len(onPath)
        /\ \A i \in 1..Len(onPath) :
               buildSessionContext.messages[i] = entryToMessage(onPath[i])

\* the context has a message, and the log has a Message entry of a sibling
\* branch or of an earlier root that the context does not show
C19_Witness ==
    /\ Len(buildSessionContext.messages) >= 1
    /\ \E i \in 1..Len(getEntries) :
           /\ getEntries[i].type = "message"
           /\ \A k \in 1..Len(PathEntries) : PathEntries[k] # getEntries[i]

\* a ModelChange entry, or a Message entry tagged with provider and model
\* the way Agent.prompt tags its assistant messages
SetsModel(e) ==
    \/ e.type = "model_change"
    \/ e.type = "message" /\ e.role = "assistant" /\ e.provider # ABSENT /\ e.model # ABSENT

-----------------------------------------------------------------------------
(* Claims about the apply command *)

\* the user confirmed and applySession returned
ApplyCompleted == applyPc = "returned" /\ chist.answered /\ confirm(chist.answer)

LastLine == console[Len(console)]

-----------------------------------------------------------------------------
(* Claims about the end of a run and the resumed run *)

\* the manifest a later process loads from the delta layer
PersistedManifest == loadManifest(delta, {})

\* C25: when a run has ended with a path in the overlay's modified or
\* deleted set (and no write to the delta layer rejected), the delta layer
\* holds the manifest of the two sets, whatever the mode of the run
C25_ManifestFlushedAtEnd ==
    (/\ mainPc = "ended"
     /\ Len(chist.modified) + Len(chist.deleted) > 0
     /\ ~chist.persistFailed) =>
        /\ delta[MANIFEST_PATH] # NoFile
        /\ PersistedManifest = [modified |-> chist.modified, deleted |-> chist.deleted]

\* C26: right after loadSession the log and the leaf are those of the
\* session at its close and the overlay's two sets are the persisted
\* manifest; the manifest the resumed run persists names every path the
\* earlier run changed
C26_ResumeRestores ==
    /\ (mainPc = "resumed" /\ last = NoCall) =>
           /\ getEntries = chist.entries
           /\ leafId = chist.leafId
           /\ modifiedFiles = PersistedManifest.modified
           /\ deletedFiles = PersistedManifest.deleted
    /\ (mainPc = "finished" /\ phase = "persisted") =>
           Elems(chist.modified) \cup Elems(chist.deleted)
               \subseteq Elems(PersistedManifest.modified) \cup Elems(PersistedManifest.deleted)

-----------------------------------------------------------------------------
(* Claims about Agent.prompt *)

\* the toolCallIds of the parts of type `type` in a message
PartIds(msg, type) ==
    {msg.content[k].toolCallId : k \in {l \in 1..Len(msg.content) : msg.content[l].type = type}}

\* C21: in the log every assistant entry with n tool invocations is followed
\* at once by n tool entries, the k-th carrying the k-th invocation, and
\* every tool entry follows its assistant entry so; in the context of the
\* current branch every tool-result part has the toolCallId of a tool-call
\* part of an earlier assistant message and every tool-call part has a
\* later tool-result part with its toolCallId
C21_ToolPairsInOrder ==
    LET entries == getEntries
        msgs == buildSessionContext.messages
    IN /\ \A i \in 1..Len(entries) :
              (entries[i].role = "assistant" /\ Len(entries[i].toolInvocations) > 0) =>
                  /\ i + Len(entries[i].toolInvocations) <= Len(entries)
                  /\ \A k \in 1..Len(entries[i].toolInvocations) :
                         /\ entries[i + k].role = "tool"
                         /\ entries[i + k].toolInvocations = <<entries[i].toolInvocations[k]>>
                         /\ entries[i + k].parentId = entries[i + k - 1].id
       /\ \A i \in 1..Len(entries) :
              entries[i].role = "tool" =>
                  \E j \in 1..(i - 1) :
                      /\ entries[j].role = "assistant"
                      /\ Len(entries[j].toolInvocations) >= i - j
                      /\ entries[i].toolInvocations = <<entries[j].toolInvocations[i - j]>>
       /\ \A i \in 1..Len(msgs) :
              /\ \A id \in PartIds(msgs[i], "tool-result") :
                     \E j \in 1..(i - 1) :
                         msgs[j].role = "assistant" /\ id \in PartIds(msgs[j], "tool-call")
              /\ \A id \in PartIds(msgs[i], "tool-call") :
                     \E j \in (i + 1)..Len(msgs) :
                         msgs[j].role = "tool" /\ id \in PartIds(msgs[j], "tool-result")

\* a prompt that returned after an iteration of two tool calls, its context
\* holding their results
C21_Witness ==
    /\ pc = "returned"
    /\ ahist.plan.perStep = 2
    /\ \E i \in 1..Len(buildSessionContext.messages) :
           buildSessionContext.messages[i].role = "tool"

RunsToEnd == pc \in {"returned", "threw"}

\* what a prompt has done when it is over, by the errors its attempts met
RetryOutcome ==
    /\ ahist.attempts <= config.maxRetries
    /\ (pc = "threw" /\ ~aborted) =>
           LET n == Len(ahist.failures)
               named == {i \in 1..n : ahist.failures[i].name
                                          \in {"AI_LoadAPIKeyError", "MissingApiKeyError"}}
           IN /\ n > 0
              /\ n = ahist.attempts
              /\ result.error = ahist.failures[n].message
              /\ named \subseteq {n}
              /\ IF named = {} THEN n = config.maxRetries /\ retries = n
                 ELSE retries = n - 1
    /\ (pc = "returned" /\ ~aborted /\ result.content # "Max tool iterations reached") =>
           /\ ahist.attempts = Len(ahist.failures) + 1
           /\ retries = Len(ahist.failures)
           /\ result.content = AnswerText(ahist.attempts)

\* a measure of what is left of a running prompt: the attempts left, then
\* the iterations left, then the place inside the iteration
PromptMeasure ==
    IF pc \in {"idle", "returned", "threw"} THEN 0
    ELSE 1 + (config.maxRetries - ahist.attempts) * (8 * (config.maxToolIterations + 1))
           + (IF pc = "sleep" THEN 0
              ELSE (config.maxToolIterations - iteration) * 8
                   + (CASE pc = "step" -> 7
                        [] pc = "stream" -> 6
                        [] pc = "tools" -> 2 * Len(pendingCalls) + 1
                        [] pc = "exec" -> 2 * Len(pendingCalls)))

\* C28: every step of a running prompt lowers the measure, so the prompt
\* ends; it makes at most maxRetries attempts; without an abort, a prompt
\* that threw rejects with the last error thrown, which is the first error
\* of a non-retryable name (no attempt follows it) or, all errors being
\* retryable, the error of attempt maxRetries; a prompt that returned an
\* answer returns the text of the attempt that succeeded, one more than the
\* failures before it
C28_RetryTermination ==
    /\ []RetryOutcome
    /\ [][(pc \notin {"idle", "returned", "threw"} /\ aborted' = aborted) =>
              PromptMeasure' < PromptMeasure]_vars

\* every attempt failed with a retryable error
C28_Witness ==
    /\ pc = "threw"
    /\ ~aborted
    /\ config.maxRetries > 1
    /\ Len(ahist.failures) = config.maxRetries
    /\ \A i \in 1..Len(ahist.failures) : ahist.failures[i].name = "Error"

\* C29: a prompt that returned after the provider answered every step with
\* tool calls has run maxToolIterations iterations, its last entry is the
\* assistant entry "Max tool iterations reached", and it returned that
\* content with the tool calls executed, one per iteration when every
\* answer asks for one
C29_MaxToolIterations ==
    (/\ pc = "returned"
     /\ ahist.failures = <<>>
     /\ \A i \in 1..Len(ahist.answers) : ahist.answers[i] = "tools") =>
        LET entries == getEntries
            final == entries[Len(entries)]
        IN /\ Len(ahist.answers) = config.maxToolIterations
           /\ iteration = config.maxToolIterations
           /\ result.content = "Max tool iterations reached"
           /\ final.role = "assistant"
           /\ final.content = "Max tool iterations reached"
           /\ Len(final.toolInvocations) = 0
           /\ leafId = final.id \/ slast.op = "resetLeaf"
           /\ result.toolCalls = allToolCalls
           /\ Len(result.toolCalls) = ahist.started
           /\ ahist.plan.perStep = 1 => Len(result.toolCalls) = config.maxToolIterations

\* the limit reached with one tool call in every answer
C29_Witness ==
    /\ pc = "returned"
    /\ result.content = "Max tool iterations reached"
    /\ ahist.plan.perStep = 1
    /\ ahist.failures = <<>>
    /\ Len(result.toolCalls) = config.maxToolIterations

-----------------------------------------------------------------------------
(* Claims about failed delegations, tombstones and listings *)

\* C32: a writeFile or copyFile whose delta write rejects, and a rename whose
\* delegated delta rename rejects, leave the modified set and the deleted
\* set as they were before the call.
C32_ManifestAfterDelegation ==
    [][(last'.op \in {"writeFile", "copyFile", "rename"} /\ ~last'.ok) =>
           /\ modifiedFiles' = modifiedFiles
           /\ deletedFiles' = deletedFiles]_vars

\* C33: while p is tombstoned, copyFile(p, q), rename(p, q) and open(p)
\* fail; none of them reads the base content of p.
C33_TombstoneNotBypassed ==
    (last.op \in {"copyFile", "rename", "open"} /\ last.tombstoned) =>
        /\ ~last.ok
        /\ ~last.copiedUp

\* the paths below directory d
Below(d) == {p \in Paths : p # d /\ StartsWith(p, DirPrefix(d))}

\* C34: after rmdir(d) or rm(d, {recursive: true}), readFile, stat and
\* access of every path below d fail with ENOENT, also when the base has it.
C34_DeletedDirectoryHidesChildren ==
    (last.op = "rmdir" \/ (last.op = "rm" /\ last.recursive)) =>
        \A p \in Below(last.path), fails \in ReadFaults :
            /\ readFile(p, fails) = ENOENT
            /\ stat(p, fails) = ENOENT
            /\ access(p, fails) = ENOENT

\* C35: every path of the modified set has content in the delta layer.
C35_ModifiedHasDeltaContent ==
    \A i \in 1..Len(modifiedFiles) : DeltaReadFile(delta, modifiedFiles[i], {}).ok

\* C39: for every directory d, readdir(d) and readdirPlus(d) both fail or
\* both succeed with the same set of names.
C39_ReaddirPlusAgrees ==
    \A d \in Paths :
        /\ readdir(d, {}).ok <=> readdirPlus(d, {}).ok
        /\ readdir(d, {}).ok => Elems(readdir(d, {}).val) = Elems(readdirPlus(d, {}).val)

-----------------------------------------------------------------------------
(* Claims about the answers to "Apply these changes? [Y/n]" *)

\* the answers that agree: empty input, "y" or "yes", in any case
Affirmative(answer) == toLowerCase(Trim(answer)) \in {<<>>, <<"y">>, <<"y", "e", "s">>}

-----------------------------------------------------------------------------
(* Claims about the record of tool executions *)

\* the k-th execution that resolved is in the log: a tool entry holds its
\* result, under an assistant entry that lists the entry's invocation
Recorded(k) ==
    LET entries == getEntries
    IN \E i \in 1..Len(entries) :
           /\ entries[i].role = "tool"
           /\ entries[i].content = StringifyResult(allToolCalls[k].result)
           /\ \E j \in 1..(i - 1) :
                  /\ entries[j].role = "assistant"
                  /\ \E n \in 1..Len(entries[j].toolInvocations) :
                         <<entries[j].toolInvocations[n]>> = entries[i].toolInvocations

\* C38: when a prompt has ended, by a return or by a throw, every tool
\* execution that resolved during it has an assistant tool-call entry and a
\* tool-result entry in the session log.
C38_ToolAuditComplete ==
    pc \in {"returned", "threw"} => \A k \in 1..Len(allToolCalls) : Recorded(k)

-----------------------------------------------------------------------------
(* Claims about the interactive UI *)

-----------------------------------------------------------------------------
(* Claims about the completeness of the manifest *)

\* TRUE when the overlay shows p otherwise than the base does: by its
\* existence or by the content readFile returns
ViewDiffers(p) ==
    \/ readFile(p, {}) # BaseReadFile(p)
    \/ stat(p, {}).ok # BaseStat(p).ok
    \/ access(p, {}).ok # BaseAccess(p).ok

\* C37: during a session (before apply touches the disk), every path the
\* overlay shows otherwise than the base does is in the modified set or in
\* the deleted set.
C37_ManifestComplete ==
    applyPc = "none" =>
        \A p \in Paths \ {MANIFEST_PATH} :
            ViewDiffers(p) => SetHas(modifiedFiles, p) \/ SetHas(deletedFiles, p)

-----------------------------------------------------------------------------
(* Claims about a session and the apply that follows it *)

\* what readFile(p) returned when the session ended: the overlay's sets and
\* the delta layer are as the session left them, chist.disk is the disk
\* apply started from
EndView(p) ==
    IF SetHas(deletedFiles, p) THEN ENOENT
    ELSE IF delta[p] # NoFile THEN Ok(delta[p])
    ELSE CASE chist.disk[p].kind = "file" -> Ok(chist.disk[p].data)
           [] chist.disk[p].kind = "dir" -> Err("EISDIR")
           [] OTHER -> ENOENT

=============================================================================
